---- MODULE Spec2Model ----
(***************************************************************************)
(* Model of magick-tui's dual-path image-processing engine:                *)
(*   - the asynchronous estimation dispatcher (imageProcessor.ts),         *)
(*   - the estimation worker (estimateWorker.ts, magickShared.ts),         *)
(*   - the UI driver's estimation effect (index.tsx),                      *)
(*   - the native binding layer (magickFFI.ts),                            *)
(*   - the per-format native/subprocess orchestration.                     *)
(***************************************************************************)
EXTENDS Integers, Sequences, FiniteSets, TLC

(***************************************************************************)
(* Bounds of the model.                                                    *)
(***************************************************************************)
\* number of estimateFileSizeAsync calls explored
MaxId == 2
\* number of debounce timers outstanding at once in the UI driver
MaxTimers == 2
\* number of effect re-runs explored in the UI driver
MaxChanges == 3
\* number of native operations started on one MagickFFI instance
MaxOps == 2
\* number of init()/cleanup() calls explored on one MagickFFI instance
MaxLifecycle == 3

\* null of the TypeScript source (number | null, Worker | null)
Null == 0

\* OutputFormat values a request can carry (types.ts)
OutputFormats == {"webp", "avif"}

\* format lists a caller passes: one format, two formats
FormatLists == {<<"webp">>, <<"webp", "avif">>}

\* the error text of a cancelled estimation (imageProcessor.ts:102)
CancelledError == "Cancelled"
\* the error text of a failed estimation (estimateWorker.ts:108)
EstimateFailedError == "Could not estimate file sizes"

VARIABLES
  \* ---- main thread: dispatcher (imageProcessor.ts) ----
  requestId,        \* let requestId = 0
  estimateWorker,   \* Worker | null, as a BOOLEAN "created"
  pendingRequests,  \* Map<number, {resolve, reject}>: key -> promise number
  promises,         \* every promise estimateFileSizeAsync created, in order
  sentCount,        \* history: request messages posted per id
  discarded,        \* history: ids whose response found no pending record
  \* ---- channels between the threads ----
  toWorker,         \* request messages posted, not yet received
  toMain,           \* response messages posted, not yet handled
  \* ---- worker thread (estimateWorker.ts) ----
  useFFIEnv,        \* Bun.env.MAGICK_USE_FFI !== 'false'
  workerFFI,        \* the worker's getMagickFFI singleton: "unset"|"ready"|"error"
  running,          \* id of the handler the worker thread is executing, or Null
  jobs,             \* per received request: position of its onmessage handler
  received,         \* history: ids in the order the worker received them
  postedCount,      \* history: responses posted per id
  \* ---- UI driver (index.tsx) ----
  params,           \* selected image, formats, quality, resize width
  processing,       \* processing() signal
  currentEstimationId,
  timers,           \* debounce timers set and not yet fired, in firing order
  sizeEstimates,    \* sizeEstimates() signal: << >> for null, else <<value>>
  estimating,       \* estimating() signal
  changes,          \* history: number of effect runs
  staleDispatch,    \* history: a timer fired although a later change happened
  \* ---- native binding layer (magickFFI.ts) ----
  lib,              \* this.lib !== null
  initialized,      \* this.initialized
  wands,            \* wands created and not destroyed
  nextWand,         \* history: number of wands created so far
  op,               \* the native operation in execution
  opLog,            \* history: finished native operations
  loads,            \* history: dlopen calls that succeeded
  genesis,          \* history: MagickWandGenesis calls
  terminus,         \* history: MagickWandTerminus calls
  lifecycle,        \* history: "init", "init-throw", "cleanup" calls, in order
  \* ---- per-format orchestration of a conversion (imageProcessor.ts) ----
  mainFFI,          \* the main thread's getMagickFFI singleton
  conv,             \* the processImage run
  \* ---- geometry resolution (fileScanner.ts, magickFFI.ts) ----
  geo,              \* the image looked at and what each resolver returned for it
  \* ---- estimate entries (estimateWorker.ts, magickShared.ts) ----
  sizing,           \* the sizes of one measured format and the entry built from them
  \* ---- output naming (fileScanner.ts) ----
  gen,              \* one generateOutputPath call and the files it looks at
  \* ---- subprocess estimation (magickShared.ts, imageProcessor.ts) ----
  temp,             \* one subprocess estimation and the temporary files
  \* ---- native and subprocess pipelines (magickFFI.ts, magickShared.ts) ----
  pipe,             \* one request carried out by the native path and by the tool
  \* ---- singleton and process-wide runtime (magickFFI.ts:672-736) ----
  rt,               \* every MagickFFI instance, each thread's module state, the runtime
  \* ---- subprocess operations (fileScanner.ts, imageProcessor.ts, magickShared.ts) ----
  sub,              \* one subprocess operation and what it reported
  \* ---- convert key of the UI driver (index.tsx) ----
  drv               \* the handleConvert runs and the processImage runs they started

dispVars == <<requestId, estimateWorker, pendingRequests, promises, sentCount, discarded>>
chanVars == <<toWorker, toMain>>
workerVars == <<useFFIEnv, workerFFI, running, jobs, received, postedCount>>
uiVars == <<params, processing, currentEstimationId, timers, sizeEstimates,
            estimating, changes, staleDispatch>>
ffiVars == <<lib, initialized, wands, nextWand, op, opLog, loads, genesis,
             terminus, lifecycle>>
convVars == <<mainFFI, conv>>
geomVars == <<geo>>
sizeVars == <<sizing>>
pathVars == <<gen>>
tempVars == <<temp>>
pipeVars == <<pipe>>
rtVars == <<rt>>
subVars == <<sub>>
drvVars == <<drv>>

vars == <<dispVars, chanVars, workerVars, uiVars, ffiVars, convVars, geomVars, sizeVars, pathVars, tempVars, pipeVars, rtVars, subVars, drvVars>>

Ids == 1..MaxId

(***************************************************************************)
(* Helpers for the JavaScript Map and for sequences.                       *)
(***************************************************************************)
\* Map.prototype.set
MapSet(m, k, v) == [x \in (DOMAIN m) \cup {k} |-> IF x = k THEN v ELSE m[x]]

\* Map.prototype.delete
MapDelete(m, k) == [x \in (DOMAIN m) \ {k} |-> m[x]]

\* the empty Map
EmptyMap == [x \in {} |-> 0]


(***************************************************************************)
(* Values exchanged between caller, dispatcher and worker.                 *)
(***************************************************************************)
\* EstimateFileSizeResult { success, estimates?, error? }
SuccessResult(estimates) == [success |-> TRUE, estimates |-> estimates, error |-> ""]

FailureResult(error) == [success |-> FALSE, estimates |-> << >>, error |-> error]

\* the parameters of one estimation request (image 0: no image selected)
ParamsOf(image, formats, quality, resize) ==
  [image |-> image, formats |-> formats, quality |-> quality, resize |-> resize]

\* the requests a direct caller of estimateFileSizeAsync submits
CallerParams == {ParamsOf(1, f, 80, Null) : f \in FormatLists}

(***************************************************************************)
(* Promises.  A promise settles on the first resolve or reject call; later *)
(* calls are counted but do not change the settled value.                  *)
(***************************************************************************)
NewPromise(id, ps, handlers) ==
  [id |-> id, req |-> ps, state |-> "pending", value |-> FailureResult(""),
   resolveCalls |-> 0, rejectCalls |-> 0, handlers |-> handlers]

ResolvePromise(p, v) ==
  IF p.state = "pending"
    THEN [p EXCEPT !.state = "fulfilled", !.value = v, !.resolveCalls = @ + 1]
    ELSE [p EXCEPT !.resolveCalls = @ + 1]

RejectPromise(p) ==
  IF p.state = "pending"
    THEN [p EXCEPT !.state = "rejected", !.rejectCalls = @ + 1]
    ELSE [p EXCEPT !.rejectCalls = @ + 1]

(***************************************************************************)
(* The .then/.catch/.finally chain the UI driver attaches to a promise     *)
(* (index.tsx:404-417).  It runs as microtasks right after the task that   *)
(* settled the promise; cur is currentEstimationId at that moment.  The    *)
(* displayed estimates remember the request they came from (req) and the   *)
(* values selected when they were displayed (shownFor).                    *)
(***************************************************************************)
UIState(cur, se, est) == [currentEstimationId |-> cur, sizeEstimates |-> se, estimating |-> est]

PromiseReaction(ui, p) ==
  IF ~p.handlers \/ ui.currentEstimationId # p.id
    THEN ui
    ELSE UIState(Null,
                 IF p.state = "fulfilled" /\ p.value.success
                   THEN <<[estimates |-> p.value.estimates, req |-> p.req,
                           shownFor |-> params]>>
                   ELSE << >>,
                 FALSE)

(***************************************************************************)
(* Dispatcher, main thread (imageProcessor.ts:34-104).                     *)
(***************************************************************************)
\* const id = ++requestId
NextRequestId_reuse(r) == IF r = 0 THEN 1 ELSE r

NextRequestId(r) == r + 1

\* estimateFileSizeAsync: the new values of the dispatcher and the request
\* channel; the caller keeps the returned promise (number Len(promises)+1).
EstimateFileSizeAsyncEffect(ps, handlers) ==
  LET id == NextRequestId(requestId)
      k == Len(promises) + 1
  IN /\ requestId' = id
     /\ estimateWorker' = TRUE
     /\ promises' = Append(promises, NewPromise(id, ps, handlers))
     /\ pendingRequests' = MapSet(pendingRequests, id, k)
     /\ toWorker' = Append(toWorker, [id |-> id, req |-> ps])
     /\ sentCount' = [sentCount EXCEPT ![id] = @ + 1]
     /\ UNCHANGED <<discarded, toMain>>

\* a direct caller (no UI driver) submits a request
estimateFileSizeAsync(ps) ==
  /\ Len(promises) < MaxId
  /\ EstimateFileSizeAsyncEffect(ps, FALSE)
  /\ UNCHANGED <<workerVars, uiVars, ffiVars, convVars, geomVars, sizeVars, pathVars, tempVars, pipeVars, rtVars, subVars, drvVars>>

\* the promise table after cancelEstimation(id)
CancelledPromises_reject(id) ==
  IF id \in DOMAIN pendingRequests
    THEN [promises EXCEPT ![pendingRequests[id]] = RejectPromise(@)]
    ELSE promises

CancelledPromises_failure(id) ==
  IF id \in DOMAIN pendingRequests
    THEN [promises EXCEPT ![pendingRequests[id]] =
            ResolvePromise(@, FailureResult(EstimateFailedError))]
    ELSE promises

CancelledPromises(id) ==
  IF id \in DOMAIN pendingRequests
    THEN [promises EXCEPT ![pendingRequests[id]] =
            ResolvePromise(@, FailureResult(CancelledError))]
    ELSE promises

\* the pending map after cancelEstimation(id)
CancelledPending_clear(id) ==
  IF id \in DOMAIN pendingRequests THEN EmptyMap ELSE pendingRequests

CancelledPending(id) ==
  IF id \in DOMAIN pendingRequests THEN MapDelete(pendingRequests, id) ELSE pendingRequests

\* a direct caller cancels; id may be unknown, completed or already cancelled
cancelEstimation(id) ==
  /\ promises' = CancelledPromises(id)
  /\ pendingRequests' = CancelledPending(id)
  /\ UNCHANGED <<requestId, estimateWorker, sentCount, discarded>>
  /\ UNCHANGED <<chanVars, workerVars, uiVars, ffiVars, convVars, geomVars, sizeVars, pathVars, tempVars, pipeVars, rtVars, subVars, drvVars>>

\* the promise table after the response handler ran on message m
HandledPromises(m) ==
  IF m.id \in DOMAIN pendingRequests
    THEN [promises EXCEPT ![pendingRequests[m.id]] =
            ResolvePromise(@, IF m.success THEN SuccessResult(m.estimates)
                                           ELSE FailureResult(m.error))]
    ELSE promises

\* the pending map after the response handler ran on message m
HandledPending_keep(m) == pendingRequests

HandledPending(m) ==
  IF m.id \in DOMAIN pendingRequests THEN MapDelete(pendingRequests, m.id) ELSE pendingRequests

\* estimateWorker.onmessage
WorkerOnMessage ==
  /\ estimateWorker
  /\ toMain # << >>
  /\ LET m == Head(toMain)
         found == m.id \in DOMAIN pendingRequests
         ui == IF found
                 THEN PromiseReaction(UIState(currentEstimationId, sizeEstimates, estimating),
                                      HandledPromises(m)[pendingRequests[m.id]])
                 ELSE UIState(currentEstimationId, sizeEstimates, estimating)
     IN /\ toMain' = Tail(toMain)
        /\ promises' = HandledPromises(m)
        /\ pendingRequests' = HandledPending(m)
        /\ discarded' = IF found THEN discarded ELSE discarded \cup {m.id}
        /\ currentEstimationId' = ui.currentEstimationId
        /\ sizeEstimates' = ui.sizeEstimates
        /\ estimating' = ui.estimating
  /\ UNCHANGED <<requestId, estimateWorker, sentCount, toWorker>>
  /\ UNCHANGED <<params, processing, timers, changes, staleDispatch>>
  /\ UNCHANGED <<workerVars, ffiVars, convVars, geomVars, sizeVars, pathVars, tempVars, pipeVars, rtVars, subVars, drvVars>>


(***************************************************************************)
(* Estimation worker (estimateWorker.ts, magickShared.ts).  The worker     *)
(* thread runs one task at a time; an onmessage handler is async, so it    *)
(* gives the thread back while it awaits the subprocess, and the thread    *)
(* may then start the handler of the next message.                         *)
(***************************************************************************)
\* what the native estimateFileSize call can do (magickFFI.ts:570-668)
NativeOutcomes == {"ok", "fail", "throw"}

\* what the subprocess can do after it was spawned (magickShared.ts:57-71)
ExitOutcomes == {"zero", "nonzero", "throw"}

\* what estimateForFormat did for the format it handled last: the native
\* outcome ("none": not attempted), the subprocess calls and spawns, how the
\* subprocess ended ("none": it did not end), and where the format's value
\* came from
NoAttempt ==
  [native |-> "none", nativeArgs |-> << >>, shell |-> 0, shellArgs |-> << >>,
   spawned |-> 0, exit |-> "none", out |-> "none"]

\* the arguments estimateForFormat passes on to either path
EstimateArgs(job) == <<job.req.image, job.req.formats[job.i], job.req.quality, job.req.resize>>

NewJob(m) ==
  [pc |-> "format", i |-> 1, req |-> m.req, estimates |-> << >>, att |-> NoAttempt]

NoJob ==
  [pc |-> "none", i |-> 0, req |-> ParamsOf(0, << >>, 0, Null), estimates |-> << >>,
   att |-> NoAttempt]

\* estimates.push({format, ...}) at estimateWorker.ts:97-104
PushEstimate(job, by) ==
  [job EXCEPT !.estimates = Append(@, job.req.formats[job.i]),
              !.att.out = by,
              !.i = @ + 1,
              !.pc = "format"]

\* estimatedSize === undefined: the format is omitted
SkipEstimate(job) ==
  [job EXCEPT !.att.out = "unmeasured", !.i = @ + 1, !.pc = "format"]

\* self.onmessage (estimateWorker.ts:117): the handler of the next message starts
WorkerReceive ==
  /\ running = Null
  /\ toWorker # << >>
  /\ LET m == Head(toWorker)
     IN /\ toWorker' = Tail(toWorker)
        /\ jobs' = [jobs EXCEPT ![m.id] = NewJob(m)]
        /\ running' = m.id
        /\ received' = Append(received, m.id)
  /\ UNCHANGED <<useFFIEnv, workerFFI, postedCount, toMain>>
  /\ UNCHANGED <<dispVars, uiVars, ffiVars, convVars, geomVars, sizeVars, pathVars, tempVars, pipeVars, rtVars, subVars, drvVars>>

\* isFFIAvailable() in the worker: the singleton is initialised on first use
\* and the outcome (instance or initError) is kept (magickFFI.ts:679-725)
AvailabilityAfterProbe(state) == IF state = "unset" THEN {"ready", "error"} ELSE {state}

\* the gate of the native attempt: useFFI && isFFIAvailable()
NativeGate(enabled, avail) == enabled /\ avail = "ready"

\* the job after the native attempt of estimateForFormat returned r
AfterNativeEstimate_fatal(job, r) ==
  LET j == [job EXCEPT !.att.native = r, !.att.nativeArgs = EstimateArgs(job)]
  IN IF r = "ok" THEN PushEstimate(j, "native") ELSE SkipEstimate(j)

AfterNativeEstimate(job, r) ==
  LET j == [job EXCEPT !.att.native = r, !.att.nativeArgs = EstimateArgs(job)]
  IN IF r = "ok" THEN PushEstimate(j, "native") ELSE [j EXCEPT !.pc = "shell"]

\* estimateForFormat, native part (estimateWorker.ts:43-61)
EstimateForFormatNative(id) ==
  /\ running = id
  /\ jobs[id].pc = "format"
  /\ jobs[id].i <= Len(jobs[id].req.formats)
  /\ \E avail \in (IF useFFIEnv THEN AvailabilityAfterProbe(workerFFI) ELSE {workerFFI}) :
       /\ workerFFI' = avail
       /\ IF NativeGate(useFFIEnv, avail)
            THEN \E r \in NativeOutcomes :
                   jobs' = [jobs EXCEPT ![id] =
                              AfterNativeEstimate([@ EXCEPT !.att = NoAttempt], r)]
            ELSE jobs' = [jobs EXCEPT ![id].att = NoAttempt, ![id].pc = "shell"]
  /\ UNCHANGED <<useFFIEnv, running, received, postedCount>>
  /\ UNCHANGED <<dispVars, chanVars, uiVars, ffiVars, convVars, geomVars, sizeVars, pathVars, tempVars, pipeVars, rtVars, subVars, drvVars>>

\* estimateFileSizeWithTempFile up to its first await (magickShared.ts:49-57):
\* Bun.spawn either throws, which rejects the handler's promise with nothing
\* catching it, or starts the subprocess and the handler is suspended
EstimateForFormatSpawn(id) ==
  /\ running = id
  /\ jobs[id].pc = "shell"
  /\ \E spawned \in BOOLEAN :
       jobs' = [jobs EXCEPT ![id] =
                  IF spawned
                    THEN [@ EXCEPT !.pc = "awaitShell",
                                   !.att.shell = @ + 1,
                                   !.att.shellArgs = EstimateArgs(jobs[id]),
                                   !.att.spawned = @ + 1]
                    ELSE [@ EXCEPT !.pc = "rejected",
                                   !.att.shell = @ + 1,
                                   !.att.shellArgs = EstimateArgs(jobs[id]),
                                   !.att.out = "threw"]]
  /\ running' = Null
  /\ UNCHANGED <<useFFIEnv, workerFFI, received, postedCount>>
  /\ UNCHANGED <<dispVars, chanVars, uiVars, ffiVars, convVars, geomVars, sizeVars, pathVars, tempVars, pipeVars, rtVars, subVars, drvVars>>

\* the job after the subprocess ended with exit outcome e (magickShared.ts:57-78)
AfterShellEstimate(job, e) ==
  LET j == [job EXCEPT !.att.exit = e]
  IN IF e = "zero" THEN PushEstimate(j, "shell")
     ELSE IF e = "nonzero" THEN SkipEstimate(j)
     ELSE [j EXCEPT !.pc = "rejected", !.att.out = "threw"]

\* the subprocess ended: the suspended handler is resumed on the worker thread
EstimateForFormatExit(id) ==
  /\ running = Null
  /\ jobs[id].pc = "awaitShell"
  /\ \E e \in ExitOutcomes :
       /\ jobs' = [jobs EXCEPT ![id] = AfterShellEstimate(@, e)]
       /\ running' = IF e = "throw" THEN Null ELSE id
  /\ UNCHANGED <<useFFIEnv, workerFFI, received, postedCount>>
  /\ UNCHANGED <<dispVars, chanVars, uiVars, ffiVars, convVars, geomVars, sizeVars, pathVars, tempVars, pipeVars, rtVars, subVars, drvVars>>

\* the response processEstimation returns (estimateWorker.ts:107-111)
EstimateResponse_allOrNothing(id, job) ==
  IF Len(job.estimates) < Len(job.req.formats)
    THEN [id |-> id, success |-> FALSE, estimates |-> << >>, error |-> EstimateFailedError]
    ELSE [id |-> id, success |-> TRUE, estimates |-> job.estimates, error |-> ""]

EstimateResponse(id, job) ==
  IF Len(job.estimates) = 0
    THEN [id |-> id, success |-> FALSE, estimates |-> << >>, error |-> EstimateFailedError]
    ELSE [id |-> id, success |-> TRUE, estimates |-> job.estimates, error |-> ""]

\* end of the format loop: self.postMessage(response) (estimateWorker.ts:118-119);
\* the handler has returned and its locals are gone
PostResponse(id) ==
  /\ running = id
  /\ jobs[id].pc = "format"
  /\ jobs[id].i > Len(jobs[id].req.formats)
  /\ toMain' = Append(toMain, EstimateResponse(id, jobs[id]))
  /\ jobs' = [jobs EXCEPT ![id] = [NoJob EXCEPT !.pc = "posted"]]
  /\ postedCount' = [postedCount EXCEPT ![id] = @ + 1]
  /\ running' = Null
  /\ UNCHANGED <<useFFIEnv, workerFFI, received, toWorker>>
  /\ UNCHANGED <<dispVars, uiVars, ffiVars, convVars, geomVars, sizeVars, pathVars, tempVars, pipeVars, rtVars, subVars, drvVars>>


(***************************************************************************)
(* UI driver: the estimation effect of App (index.tsx:364-427).            *)
(*                                                                         *)
(* The effect re-runs whenever a signal it read changes.  It is created    *)
(* with solid-js createEffect, which hands the function's return value to  *)
(* the next run as its argument; a disposer is registered only with        *)
(* onCleanup, which index.tsx does not import.  The arrow function the     *)
(* effect returns (index.tsx:420-426) is therefore never called:           *)
(* no clearTimeout, and no cancelEstimation other than the one at the      *)
(* head of the next run.                                                   *)
(***************************************************************************)
\* images in the file list, QUALITY_PRESETS values and resize widths explored
Images == {1, 2}

Qualities == {80, 90}

Widths == {Null, 300}

UIParams == {ParamsOf(i, f, q, w) : i \in Images, f \in FormatLists, q \in Qualities, w \in Widths}

\* one key press changes one signal
OneFieldDiffers(p, q) ==
  Cardinality({f \in {"image", "formats", "quality", "resize"} : p[f] # q[f]}) = 1

\* the timers after the effect body ran: setTimeout at index.tsx:391-418, or
\* the early return at index.tsx:382-388
TimersAfterEffect(ps, proc) ==
  IF ps.image = 0 \/ Len(ps.formats) = 0 \/ proc
    THEN timers
    ELSE Append(timers, [req |-> ps, version |-> changes'])

\* the effect body, run with the new signal values ps and proc
EstimationEffect(ps, proc) ==
  LET cur == currentEstimationId
      cancelled == cur # Null /\ cur \in DOMAIN pendingRequests
      ui0 == UIState(Null,
                     IF (ps.image = 0 \/ Len(ps.formats) = 0 \/ proc) /\ ~proc
                       THEN << >> ELSE sizeEstimates,
                     IF (ps.image = 0 \/ Len(ps.formats) = 0 \/ proc) /\ ~proc
                       THEN FALSE ELSE estimating)
      ui == IF cancelled
              THEN PromiseReaction(ui0, CancelledPromises(cur)[pendingRequests[cur]])
              ELSE ui0
  IN /\ promises' = IF cur # Null THEN CancelledPromises(cur) ELSE promises
     /\ pendingRequests' = IF cur # Null THEN CancelledPending(cur) ELSE pendingRequests
     /\ timers' = TimersAfterEffect(ps, proc)
     /\ currentEstimationId' = ui.currentEstimationId
     /\ sizeEstimates' = ui.sizeEstimates
     /\ estimating' = ui.estimating
     /\ params' = ps
     /\ processing' = proc
     /\ UNCHANGED <<requestId, estimateWorker, sentCount, discarded, staleDispatch>>
     /\ UNCHANGED <<chanVars, workerVars, ffiVars, convVars, geomVars, sizeVars, pathVars, tempVars, pipeVars, rtVars, subVars, drvVars>>

\* a key press changes the selected image, the formats, the quality or the
\* resize width (keys are ignored while processing, index.tsx:232)
ParamChange(ps) ==
  /\ ~processing
  /\ changes < MaxChanges
  /\ Len(timers) < MaxTimers
  /\ IF params.image = 0
       THEN ps.image = 1 /\ OneFieldDiffers(params, ps)
       ELSE OneFieldDiffers(params, ps)
  /\ changes' = changes + 1
  /\ EstimationEffect(ps, processing)

\* handleConvert sets processing (index.tsx:153)
StartConvert ==
  /\ ~processing
  /\ params.image # 0
  /\ changes' = changes
  /\ EstimationEffect(params, TRUE)

\* handleConvert's finally clears processing (index.tsx:218-220)
FinishConvert ==
  /\ processing
  /\ Len(timers) < MaxTimers
  /\ changes' = changes
  /\ EstimationEffect(params, FALSE)

\* the debounce timer callback (index.tsx:391-418)
TimerFire ==
  /\ timers # << >>
  /\ Len(promises) < MaxId
  /\ LET t == Head(timers)
     IN /\ timers' = Tail(timers)
        /\ estimating' = TRUE
        /\ EstimateFileSizeAsyncEffect(t.req, TRUE)
        /\ currentEstimationId' = NextRequestId(requestId)
        /\ staleDispatch' = (staleDispatch \/ t.version # changes)
  /\ UNCHANGED <<params, processing, sizeEstimates, changes>>
  /\ UNCHANGED <<workerVars, ffiVars, convVars, geomVars, sizeVars, pathVars, tempVars, pipeVars, rtVars, subVars, drvVars>>

(***************************************************************************)
(* Conversion orchestrator, main thread (imageProcessor.ts:106-342).       *)
(***************************************************************************)
\* displayed geometry of the source image explored; << >> is null
SourceDims == <<600, 400>>

GeometryResults == {<< >>, SourceDims}

\* resize requests explored: <<resizeWidth, resizeHeight>>
ResizeRequests ==
  {<<Null, Null>>, <<300, Null>>, <<1200, Null>>, <<Null, 500>>, <<600, 400>>,
   <<300, 500>>, <<1200, 500>>}

\* format lists a conversion is asked for
ConvertFormatLists == {<< >>, <<"webp">>, <<"webp", "avif">>}

\* An error text is the sequence of its parts; << >> is no error.
NoText == << >>

\* validateResize (imageProcessor.ts:119-151); dims is what getImageDimensions
\* resolved, consulted only when a resize is requested
ValidateResize_heightFirst(dims, rw, rh) ==
  IF rw = Null /\ rh = Null THEN [valid |-> TRUE, error |-> NoText]
  ELSE IF dims = << >>
    THEN [valid |-> FALSE, error |-> <<"Could not read image", "dimensions">>]
  ELSE IF rh # Null /\ rh > dims[2]
    THEN [valid |-> FALSE, error |-> <<"Cannot", "upscale", "height">>]
  ELSE IF rw # Null /\ rw > dims[1]
    THEN [valid |-> FALSE, error |-> <<"Cannot", "upscale", "width">>]
  ELSE [valid |-> TRUE, error |-> NoText]

ValidateResize(dims, rw, rh) ==
  IF rw = Null /\ rh = Null THEN [valid |-> TRUE, error |-> NoText]
  ELSE IF dims = << >>
    THEN [valid |-> FALSE, error |-> <<"Could not read image", "dimensions">>]
  ELSE IF rw # Null /\ rw > dims[1]
    THEN [valid |-> FALSE, error |-> <<"Cannot", "upscale", "width">>]
  ELSE IF rh # Null /\ rh > dims[2]
    THEN [valid |-> FALSE, error |-> <<"Cannot", "upscale", "height">>]
  ELSE [valid |-> TRUE, error |-> NoText]

\* the locals of a processImage run, with the history of what it did:
\* progress (onProgress calls), trace (onProgress and convertToFormat calls in
\* order), geometryReads, dims and validation (what validateResize read and
\* returned)
NoConv ==
  [pc |-> "idle", formats |-> << >>, rw |-> Null, rh |-> Null, i |-> 0,
   outputPaths |-> << >>, errors |-> << >>, progress |-> << >>, trace |-> << >>,
   att |-> NoAttempt, geometryReads |-> 0, dims |-> << >>,
   validation |-> [valid |-> TRUE, error |-> NoText],
   result |-> [success |-> FALSE, outputPaths |-> << >>, error |-> NoText]]

\* processImage is called (imageProcessor.ts:292-296)
ProcessImageStart(formats, rq) ==
  /\ conv.pc = "idle"
  /\ conv' = [conv EXCEPT !.pc = "validate", !.formats = formats,
                          !.rw = rq[1], !.rh = rq[2], !.i = 1]
  /\ UNCHANGED mainFFI
  /\ UNCHANGED <<dispVars, chanVars, workerVars, uiVars, ffiVars, geomVars, sizeVars, pathVars, tempVars, pipeVars, rtVars, subVars, drvVars>>

\* the result of processImage when validation fails (imageProcessor.ts:300-302)
ValidationFailure_generic(v) ==
  [success |-> FALSE, outputPaths |-> << >>, error |-> <<"Invalid resize">>]

ValidationFailure(v) == [success |-> FALSE, outputPaths |-> << >>, error |-> v.error]

\* const validation = await validateResize(...) (imageProcessor.ts:298-302)
ProcessImageValidate(dims) ==
  /\ conv.pc = "validate"
  /\ LET needsGeometry == conv.rw # Null \/ conv.rh # Null
         v == ValidateResize(dims, conv.rw, conv.rh)
         c == [conv EXCEPT !.geometryReads = IF needsGeometry THEN 1 ELSE 0,
                           !.dims = IF needsGeometry THEN dims ELSE << >>,
                           !.validation = v]
     IN conv' = IF v.valid
                  THEN [c EXCEPT !.pc = "format"]
                  ELSE [c EXCEPT !.pc = "done", !.result = ValidationFailure(v)]
  /\ UNCHANGED mainFFI
  /\ UNCHANGED <<dispVars, chanVars, workerVars, uiVars, ffiVars, geomVars, sizeVars, pathVars, tempVars, pipeVars, rtVars, subVars, drvVars>>

\* result.success && result.outputPath: outputPaths.push (imageProcessor.ts:318-319)
PushOutput(c, by) ==
  [c EXCEPT !.outputPaths = Append(@, c.formats[c.i]),
            !.att.out = by, !.i = @ + 1, !.pc = "format"]

\* format.toUpperCase()
ToUpperCase(format) == IF format = "webp" THEN "WEBP" ELSE "AVIF"

\* the error text of a native conversion that returned a failure or threw
\* (the text convertToFormat logs, imageProcessor.ts:274-282)
NativeErrorText(r) ==
  IF r = "fail" THEN <<"native: failure result">>
  ELSE IF r = "throw" THEN <<"native: exception">>
  ELSE NoText

\* the error text of convertToFormatShell (imageProcessor.ts:207-221)
ShellErrorText(e) ==
  IF e = "nonzero" THEN <<"magick: stderr">>
  ELSE IF e = "throw" THEN <<"spawn: exception">>
  ELSE NoText

\* the error of the result convertToFormat returns when both paths failed:
\* it returns convertToFormatShell's result (imageProcessor.ts:285-286)
FormatError(nativeText, shellText) == shellText

\* result.error: errors.push(`${format.toUpperCase()}: ${result.error}`)
\* (imageProcessor.ts:320-322); the entry remembers both error texts
PushError(c, e) ==
  LET nativeText == NativeErrorText(c.att.native)
      shellText == ShellErrorText(e)
      text == FormatError(nativeText, shellText)
  IN [c EXCEPT !.errors = Append(@, [format |-> c.formats[c.i],
                                      text |-> text,
                                      line |-> <<ToUpperCase(c.formats[c.i])>> \o text,
                                      nativeText |-> nativeText,
                                      shellText |-> shellText]),
               !.att.out = "failed", !.i = @ + 1, !.pc = "format"]

\* the arguments convertToFormat passes on to either path
ConvertArgs(c) == <<c.formats[c.i], c.rw, c.rh>>

\* the run after the native attempt of convertToFormat returned r
AfterNativeConvert(c, r) ==
  LET d == [c EXCEPT !.att.native = r, !.att.nativeArgs = ConvertArgs(c)]
  IN IF r = "ok" THEN PushOutput(d, "native") ELSE [d EXCEPT !.pc = "shell"]

\* the calls one loop iteration makes before the conversion attempt, in order
\* (imageProcessor.ts:307-316)
IterationCalls_silent(format) == <<[call |-> "convertToFormat", format |-> format]>>

IterationCalls(format) ==
  <<[call |-> "onProgress", format |-> format],
    [call |-> "convertToFormat", format |-> format]>>

\* the formats onProgress was called with among the calls
ProgressOf(calls) ==
  LET made == SelectSeq(calls, LAMBDA x : x.call = "onProgress")
  IN [k \in 1..Len(made) |-> made[k].format]

\* one loop iteration up to the subprocess: onProgress, then the native part
\* of convertToFormat (imageProcessor.ts:307-316, 252-283)
ConvertToFormatNative ==
  /\ conv.pc = "format"
  /\ conv.i <= Len(conv.formats)
  /\ LET calls == IterationCalls(conv.formats[conv.i])
         c == [conv EXCEPT !.progress = @ \o ProgressOf(calls),
                           !.trace = @ \o calls,
                           !.att = NoAttempt]
     IN \E avail \in (IF useFFIEnv THEN AvailabilityAfterProbe(mainFFI) ELSE {mainFFI}) :
          /\ mainFFI' = avail
          /\ IF NativeGate(useFFIEnv, avail)
               THEN \E r \in NativeOutcomes : conv' = AfterNativeConvert(c, r)
               ELSE conv' = [c EXCEPT !.pc = "shell"]
  /\ UNCHANGED <<dispVars, chanVars, workerVars, uiVars, ffiVars, geomVars, sizeVars, pathVars, tempVars, pipeVars, rtVars, subVars, drvVars>>

\* what the subprocess conversion can do: Bun.spawn throws (caught), or the
\* tool exits with zero or non-zero code (imageProcessor.ts:190-223)
ConvertShellOutcomes == {"zero", "nonzero", "throw"}

\* convertToFormatShell and the bookkeeping of its result
ConvertToFormatShell ==
  /\ conv.pc = "shell"
  /\ \E e \in ConvertShellOutcomes :
       LET c == [conv EXCEPT !.att.shell = @ + 1,
                             !.att.shellArgs = ConvertArgs(conv),
                             !.att.spawned = IF e = "throw" THEN @ ELSE @ + 1]
       IN conv' = IF e = "zero" THEN PushOutput(c, "shell") ELSE PushError(c, e)
  /\ UNCHANGED mainFFI
  /\ UNCHANGED <<dispVars, chanVars, workerVars, uiVars, ffiVars, geomVars, sizeVars, pathVars, tempVars, pipeVars, rtVars, subVars, drvVars>>

\* errors.join('\n')
RECURSIVE JoinErrors(_)
JoinErrors(errors) ==
  IF errors = << >> THEN NoText ELSE Head(errors).line \o JoinErrors(Tail(errors))

\* the overall result (imageProcessor.ts:325-341)
ProcessResult_allOrNothing(c) ==
  IF Len(c.errors) > 0 \/ Len(c.outputPaths) = 0
    THEN [success |-> FALSE, outputPaths |-> << >>,
          error |-> IF Len(c.errors) = 0 THEN <<"No images were converted">>
                    ELSE JoinErrors(c.errors)]
  ELSE [success |-> TRUE, outputPaths |-> c.outputPaths, error |-> NoText]

ProcessResult(c) ==
  IF Len(c.outputPaths) = 0
    THEN [success |-> FALSE, outputPaths |-> << >>,
          error |-> IF JoinErrors(c.errors) = NoText THEN <<"No images were converted">>
                    ELSE JoinErrors(c.errors)]
  ELSE IF Len(c.errors) > 0
    THEN [success |-> TRUE, outputPaths |-> c.outputPaths,
          error |-> <<"Some conversions failed:">> \o JoinErrors(c.errors)]
  ELSE [success |-> TRUE, outputPaths |-> c.outputPaths, error |-> NoText]

\* the format loop is over: processImage returns
ProcessImageFinish ==
  /\ conv.pc = "format"
  /\ conv.i > Len(conv.formats)
  /\ conv' = [conv EXCEPT !.pc = "done", !.result = ProcessResult(conv)]
  /\ UNCHANGED mainFFI
  /\ UNCHANGED <<dispVars, chanVars, workerVars, uiVars, ffiVars, geomVars, sizeVars, pathVars, tempVars, pipeVars, rtVars, subVars, drvVars>>

(***************************************************************************)
(* Native binding layer: one MagickFFI instance (magickFFI.ts:294-669).    *)
(* JavaScript runs a native operation to its end before anything else on   *)
(* the thread, so init, cleanup and a new operation start only while no    *)
(* operation is in execution.                                              *)
(***************************************************************************)
NoOp == [kind |-> "none", step |-> 0, wand |-> 0, resize |-> FALSE, exit |-> ""]

\* what init() can meet on an uninitialized instance: dlopen throws, dlopen
\* succeeds and MagickWandGenesis throws, or both succeed
InitOutcomes == {"ok", "dlopen-throw", "genesis-throw"}

\* init() (magickFFI.ts:303-323)
init(outcome) ==
  /\ op = NoOp
  /\ Len(lifecycle) < MaxLifecycle
  /\ IF initialized
       THEN /\ UNCHANGED <<lib, initialized, loads, genesis>>
            /\ lifecycle' = Append(lifecycle, "init")
       ELSE IF outcome = "ok"
         THEN /\ lib' = TRUE
              /\ loads' = loads + 1
              /\ genesis' = genesis + 1
              /\ initialized' = TRUE
              /\ lifecycle' = Append(lifecycle, "init")
       ELSE IF outcome = "genesis-throw"
         THEN /\ lib' = TRUE
              /\ loads' = loads + 1
              /\ UNCHANGED <<initialized, genesis>>
              /\ lifecycle' = Append(lifecycle, "init-throw")
         ELSE /\ UNCHANGED <<lib, initialized, loads, genesis>>
              /\ lifecycle' = Append(lifecycle, "init-throw")
  /\ UNCHANGED <<wands, nextWand, op, opLog, terminus>>
  /\ UNCHANGED <<dispVars, chanVars, workerVars, uiVars, convVars, geomVars, sizeVars, pathVars, tempVars, pipeVars, rtVars, subVars, drvVars>>

\* the guard of cleanup(): this.lib && this.initialized
CleanupGuard_always == TRUE

CleanupGuard == lib /\ initialized

\* cleanup() (magickFFI.ts:328-334)
cleanup ==
  /\ op = NoOp
  /\ Len(lifecycle) < MaxLifecycle
  /\ IF CleanupGuard
       THEN /\ terminus' = terminus + 1
            /\ initialized' = FALSE
            /\ lifecycle' = Append(lifecycle, "cleanup")
       ELSE /\ UNCHANGED <<terminus, initialized>>
            /\ lifecycle' = Append(lifecycle, "cleanup")
  /\ UNCHANGED <<lib, wands, nextWand, op, opLog, loads, genesis>>
  /\ UNCHANGED <<dispVars, chanVars, workerVars, uiVars, convVars, geomVars, sizeVars, pathVars, tempVars, pipeVars, rtVars, subVars, drvVars>>

\* the native calls of each operation inside its try block, in source order
Pipeline(kind) ==
  IF kind = "dimensions" THEN <<"read", "measure">>
  ELSE IF kind = "convert"
    THEN <<"read", "orient", "strip", "quality", "resize", "format", "write">>
  ELSE <<"read", "orient", "strip", "quality", "resize", "format", "blob">>

\* the calls whose falsy result makes the operation return early
FatalSteps(kind) ==
  IF kind = "dimensions" THEN {"read"}
  ELSE IF kind = "convert" THEN {"read", "resize", "format", "write"}
  ELSE {"read", "format", "blob"}

\* what one native call can do: truthy result, falsy result, exception
StepOutcomes == {"ok", "fail", "throw"}

\* entry of getImageDimensions / convertImage / estimateFileSize up to the try:
\* the lib check, then createWand (magickFFI.ts:346-356)
NativeOpStart(kind, resize, created) ==
  /\ op = NoOp
  /\ Len(opLog) < MaxOps
  /\ IF ~lib
       THEN /\ opLog' = Append(opLog, [kind |-> kind, exit |-> "throw", wand |-> 0,
                                       destroyed |-> 0])
            /\ UNCHANGED <<op, wands, nextWand>>
       ELSE IF ~created
         THEN /\ opLog' = Append(opLog, [kind |-> kind, exit |-> "throw", wand |-> 0,
                                         destroyed |-> 0])
              /\ UNCHANGED <<op, wands, nextWand>>
         ELSE /\ nextWand' = nextWand + 1
              /\ wands' = wands \cup {nextWand + 1}
              /\ op' = [kind |-> kind, step |-> 1, wand |-> nextWand + 1,
                        resize |-> resize, exit |-> ""]
              /\ UNCHANGED opLog
  /\ UNCHANGED <<lib, initialized, loads, genesis, terminus, lifecycle>>
  /\ UNCHANGED <<dispVars, chanVars, workerVars, uiVars, convVars, geomVars, sizeVars, pathVars, tempVars, pipeVars, rtVars, subVars, drvVars>>

getImageDimensions(created) == NativeOpStart("dimensions", FALSE, created)

convertImage(resize, created) == NativeOpStart("convert", resize, created)

estimateFileSize(resize, created) == NativeOpStart("estimate", resize, created)

\* the operation after its current native call returned r
AfterNativeStep(o, r) ==
  LET name == Pipeline(o.kind)[o.step]
  IN IF r = "throw" THEN [o EXCEPT !.exit = "throw"]
     ELSE IF r = "fail" /\ name \in FatalSteps(o.kind) THEN [o EXCEPT !.exit = "failure"]
     ELSE IF o.step = Len(Pipeline(o.kind)) THEN [o EXCEPT !.exit = "success"]
     ELSE [o EXCEPT !.step = @ + 1]

\* one native call of the pipeline; the resize call is made only when a
\* resize was requested and shrinks
NativeStep ==
  /\ op.kind # "none"
  /\ op.exit = ""
  /\ IF Pipeline(op.kind)[op.step] = "resize" /\ ~op.resize
       THEN op' = [op EXCEPT !.step = @ + 1]
       ELSE \E r \in StepOutcomes : op' = AfterNativeStep(op, r)
  /\ UNCHANGED <<lib, initialized, wands, nextWand, opLog, loads, genesis, terminus,
                 lifecycle>>
  /\ UNCHANGED <<dispVars, chanVars, workerVars, uiVars, convVars, geomVars, sizeVars, pathVars, tempVars, pipeVars, rtVars, subVars, drvVars>>

\* the wands alive after destroyWand(wand) (magickFFI.ts:361-366)
WandsAfterDestroy_leak(w) == IF op.exit = "success" THEN wands \ {w} ELSE wands

WandsAfterDestroy(w) == IF lib /\ w # 0 THEN wands \ {w} ELSE wands

\* the finally block: destroyWand, then the operation returns or rethrows
NativeFinally ==
  /\ op.kind # "none"
  /\ op.exit # ""
  /\ wands' = WandsAfterDestroy(op.wand)
  /\ opLog' = Append(opLog, [kind |-> op.kind, exit |-> op.exit, wand |-> op.wand,
                             destroyed |-> Cardinality(wands \ wands')])
  /\ op' = NoOp
  /\ UNCHANGED <<lib, initialized, nextWand, loads, genesis, terminus, lifecycle>>
  /\ UNCHANGED <<dispVars, chanVars, workerVars, uiVars, convVars, geomVars, sizeVars, pathVars, tempVars, pipeVars, rtVars, subVars, drvVars>>

(***************************************************************************)
(* Geometry resolution: getImageDimensions of fileScanner.ts with its      *)
(* native (magickFFI.ts:393-429) and subprocess resolvers.                 *)
(***************************************************************************)
\* raw pixel sizes <<width, height>> of the images explored
RawSizes == {<<600, 400>>, <<400, 400>>}

\* the EXIF orientation of an image: << >> when the image carries none, else
\* <<code>>; 0 is the undefined orientation
ExifOrientations == {<< >>} \cup {<<c>> : c \in 0..8}

\* the image files explored; an unreadable one is missing or corrupt
ImageFiles ==
  {[readable |-> r, raw |-> d, exif |-> o] :
     r \in BOOLEAN, d \in RawSizes, o \in ExifOrientations}

\* shouldSwapDimensions (magickFFI.ts:287-289)
shouldSwapDimensions_from6(orientation) == orientation >= 6 /\ orientation <= 8

shouldSwapDimensions(orientation) == orientation >= 5 /\ orientation <= 8

\* let width, height; if (shouldSwapDimensions(orientation)) swap; return
ResolveDimensions(width, height, orientation) ==
  IF shouldSwapDimensions(orientation) THEN <<height, width>> ELSE <<width, height>>

\* MagickGetImageOrientation: UndefinedOrientation (0) when the image has none
MagickGetImageOrientation(img) == IF img.exif = << >> THEN 0 ELSE img.exif[1]

\* MagickFFI.getImageDimensions when it returns (magickFFI.ts:399-425): null,
\* written << >>, when MagickReadImage fails
NativeDimensions(img) ==
  IF ~img.readable THEN << >>
  ELSE ResolveDimensions(img.raw[1], img.raw[2], MagickGetImageOrientation(img))

\* the words magick identify -format '%w %h %[EXIF:Orientation]' prints, after
\* output.trim().split(' '): the orientation word is missing when the image
\* carries none
IdentifyParts(img) == <<img.raw[1], img.raw[2]>> \o img.exif

\* the parsing of getImageDimensionsShell (fileScanner.ts:46-61): parts[2]
\* defaults to '1'
ParseIdentify_unoriented(parts) ==
  IF Len(parts) < 2 THEN << >> ELSE <<parts[1], parts[2]>>

ParseIdentify(parts) ==
  IF Len(parts) < 2 THEN << >>
  ELSE ResolveDimensions(parts[1], parts[2], IF Len(parts) >= 3 THEN parts[3] ELSE 1)

\* what the subprocess resolver can meet: Bun.spawn or a stream throws, or
\* the tool exits
ShellGeometryOutcomes == {"throw", "exit"}

\* getImageDimensionsShell (fileScanner.ts:27-65): the outcome it gives its
\* caller; the catch turns an exception into null
ShellDimensions_uncaught(img, e) ==
  IF e = "throw" THEN [threw |-> TRUE, value |-> << >>]
  ELSE IF ~img.readable THEN [threw |-> FALSE, value |-> << >>]
  ELSE [threw |-> FALSE, value |-> ParseIdentify(IdentifyParts(img))]

ShellDimensions(img, e) ==
  IF e = "throw" THEN [threw |-> FALSE, value |-> << >>]
  ELSE IF ~img.readable THEN [threw |-> FALSE, value |-> << >>]
  ELSE [threw |-> FALSE, value |-> ParseIdentify(IdentifyParts(img))]

\* what the native resolver can do: throw (createWand, a native call) or return
NativeGeometryOutcomes == {"throw", "return"}

NoGeo ==
  [pc |-> "idle", image |-> [readable |-> FALSE, raw |-> <<0, 0>>, exif |-> << >>],
   nativeCall |-> "none", nativeResult |-> << >>,
   shellCall |-> "none", shellResult |-> << >>,
   attempt |-> "none", result |-> << >>, threw |-> FALSE]

\* getImageDimensionsFFI (fileScanner.ts:71-74) called on the image, as the
\* binding layer's own callers do: the native resolver alone
getImageDimensionsFFI ==
  /\ geo.pc # "idle"
  /\ geo.nativeCall = "none"
  /\ \E r \in NativeGeometryOutcomes :
       geo' = IF r = "throw"
                THEN [geo EXCEPT !.nativeCall = "threw"]
                ELSE [geo EXCEPT !.nativeCall = "returned",
                                 !.nativeResult = NativeDimensions(geo.image)]
  /\ UNCHANGED <<dispVars, chanVars, workerVars, uiVars, ffiVars, convVars, sizeVars, pathVars, tempVars, pipeVars, rtVars, subVars, drvVars>>

\* getImageDimensions, native part (fileScanner.ts:84-102): a non-null native
\* result is returned, anything else falls through to the subprocess
GetImageDimensionsNative ==
  /\ geo.pc = "start"
  /\ \E avail \in (IF useFFIEnv THEN AvailabilityAfterProbe(mainFFI) ELSE {mainFFI}) :
       /\ mainFFI' = avail
       /\ IF NativeGate(useFFIEnv, avail)
            THEN \E r \in NativeGeometryOutcomes :
                   LET d == NativeDimensions(geo.image)
                   IN geo' = IF r = "throw"
                               THEN [geo EXCEPT !.attempt = "threw", !.pc = "shell"]
                             ELSE IF d = << >>
                               THEN [geo EXCEPT !.attempt = "null", !.pc = "shell"]
                             ELSE [geo EXCEPT !.attempt = "dims", !.pc = "done",
                                              !.result = d]
            ELSE geo' = [geo EXCEPT !.pc = "shell"]
  /\ UNCHANGED conv
  /\ UNCHANGED <<dispVars, chanVars, workerVars, uiVars, ffiVars, sizeVars, pathVars, tempVars, pipeVars, rtVars, subVars, drvVars>>

\* return getImageDimensionsShell(imagePath) (fileScanner.ts:104)
GetImageDimensionsShell ==
  /\ geo.pc = "shell"
  /\ \E e \in ShellGeometryOutcomes :
       LET r == ShellDimensions(geo.image, e)
       IN geo' = [geo EXCEPT !.pc = "done",
                             !.shellCall = IF e = "throw" THEN "failed" ELSE "exited",
                             !.shellResult = r.value,
                             !.result = r.value,
                             !.threw = r.threw]
  /\ UNCHANGED <<dispVars, chanVars, workerVars, uiVars, ffiVars, convVars, sizeVars, pathVars, tempVars, pipeVars, rtVars, subVars, drvVars>>

(***************************************************************************)
(* Estimate entries: what processEstimation pushes for a measured format   *)
(* (estimateWorker.ts:96-103, magickShared.ts:84-86).                      *)
(***************************************************************************)
\* largest source file size and largest measured size explored, in bytes
MaxOriginalSize == 200

MaxEstimatedSize == 203

\* Math.round applied to the double computed for the fraction num/den,
\* den > 0.  Math.round gives the nearest integer and takes a half up
\* (Math.round(-0.5) is 0).  The division and the multiplication before it
\* are rounded to doubles, so a fraction that is exactly a half may reach
\* Math.round a little below or above the half: either neighbour can come out
\* then.  The values possible:
MathRound_floor(num, den) == {num \div den}

MathRound(num, den) ==
  LET up == (2 * num + den) \div (2 * den)
  IN IF (2 * num + den) % (2 * den) = 0 THEN {up - 1, up} ELSE {up}

\* calculateDecreasePercent: Math.round(((originalSize - estimatedSize) / originalSize) * 100),
\* the values possible
calculateDecreasePercent(originalSize, estimatedSize) ==
  MathRound(100 * (originalSize - estimatedSize), originalSize)

\* the entry pushed for a format: { format, estimatedSize, originalSize, decreasePercent }
EstimateEntry(format, originalSize, estimatedSize, percent) ==
  [format |-> format, estimatedSize |-> estimatedSize, originalSize |-> originalSize,
   decreasePercent |-> percent]

NoSizing ==
  [pc |-> "idle", format |-> "", originalSize |-> 0, estimatedSize |-> 0,
   entry |-> [format |-> "", estimatedSize |-> 0, originalSize |-> 0, decreasePercent |-> 0]]

\* estimates.push(...) for a format whose size was measured
PushEstimateEntry ==
  /\ sizing.pc = "measured"
  /\ \E percent \in calculateDecreasePercent(sizing.originalSize, sizing.estimatedSize) :
       sizing' = [sizing EXCEPT !.pc = "pushed",
                                !.entry = EstimateEntry(sizing.format, sizing.originalSize,
                                                        sizing.estimatedSize, percent)]
  /\ UNCHANGED <<dispVars, chanVars, workerVars, uiVars, ffiVars, convVars, geomVars, pathVars, tempVars, pipeVars, rtVars, subVars, drvVars>>


(***************************************************************************)
(* Output naming: generateOutputPath (fileScanner.ts:187-204).  A path is   *)
(* the sequence of its pieces: the separators "/", "." and "-", and the     *)
(* runs of other characters between them.                                   *)
(***************************************************************************)
\* counter suffixes of the files that may exist before the call
MaxSuffix == 2

\* String.prototype.lastIndexOf, as a position from 1; 0 is JavaScript's -1
LastIndexOf(s, piece) ==
  LET at == {i \in 1..Len(s) : s[i] = piece}
  IN IF at = {} THEN 0 ELSE CHOOSE i \in at : \A j \in at : j <= i

\* s.substring(0, s.lastIndexOf(piece)); substring takes a negative end as 0
BeforeLast(s, piece) ==
  IF LastIndexOf(s, piece) <= 1 THEN << >> ELSE SubSeq(s, 1, LastIndexOf(s, piece) - 1)

\* path.basename of a path that does not end with a separator
Basename(path) ==
  IF LastIndexOf(path, "/") = Len(path) THEN << >>
  ELSE SubSeq(path, LastIndexOf(path, "/") + 1, Len(path))

\* path.join(dir, file) for a normalized dir and a file name: an empty dir is
\* skipped
Join(dir, file) == IF dir = << >> THEN file ELSE dir \o <<"/">> \o file

\* the file a path names for a process whose working directory is cwd
Resolve(cwd, path) ==
  IF path # << >> /\ path[1] = "/" THEN path
  ELSE IF cwd = <<"/">> THEN cwd \o path
  ELSE cwd \o <<"/">> \o path

\* existsSync
ExistsSync(fs, cwd, path) == Resolve(cwd, path) \in fs

\* `${baseName}.${format}` and `${baseName}-${counter}.${format}`
OutputName(baseName, counter, format) ==
  IF counter = 0 THEN baseName \o <<".", format>>
  ELSE baseName \o <<"-", ToString(counter), ".", format>>

\* counter++
NextCounter_skip(counter) == counter + 2

NextCounter(counter) == counter + 1

\* the calls explored: the working directory and the input path, with the
\* folder and the name without extension the input stands for.  scanDirectory
\* passes join(process.cwd(), entry) (fileScanner.ts:121, index.tsx:181);
\* the last call is a relative path, as a direct caller may pass
PathCalls ==
  {[cwd |-> <<"/", "d">>, inputPath |-> <<"/", "d", "/", "a", ".", "png">>,
    folder |-> <<"/", "d">>, stem |-> <<"a">>],
   [cwd |-> <<"/", "d">>, inputPath |-> <<"/", "d", "/", "a", ".", "b", ".", "png">>,
    folder |-> <<"/", "d">>, stem |-> <<"a", ".", "b">>],
   [cwd |-> <<"/", "d">>, inputPath |-> <<"/", "d", "/", "a", "-", "1", ".", "png">>,
    folder |-> <<"/", "d">>, stem |-> <<"a", "-", "1">>],
   [cwd |-> <<"/">>, inputPath |-> <<"/", "a", ".", "png">>,
    folder |-> <<"/">>, stem |-> <<"a">>],
   [cwd |-> <<"/", "d">>, inputPath |-> <<"a", ".", "png">>,
    folder |-> <<"/", "d">>, stem |-> <<"a">>]}

\* the files of both formats that may exist next to the input of a call
FilesNear(call) ==
  {Resolve(call.folder, OutputName(call.stem, k, f)) :
     k \in 0..MaxSuffix, f \in OutputFormats}

NoGen ==
  [pc |-> "idle", cwd |-> << >>, inputPath |-> << >>, format |-> "", fs |-> {},
   dir |-> << >>, baseName |-> << >>, counter |-> 0, outputPath |-> << >>,
   folder |-> << >>, stem |-> << >>]

\* generateOutputPath up to the loop (fileScanner.ts:191-196)
GenerateOutputPathStart ==
  /\ gen.pc = "call"
  /\ LET dir == BeforeLast(gen.inputPath, "/")
         baseName == BeforeLast(Basename(gen.inputPath), ".")
     IN gen' = [gen EXCEPT !.pc = "loop", !.dir = dir, !.baseName = baseName,
                           !.counter = 0,
                           !.outputPath = Join(dir, OutputName(baseName, 0, gen.format))]
  /\ UNCHANGED <<dispVars, chanVars, workerVars, uiVars, ffiVars, convVars, geomVars,
                 sizeVars, tempVars, pipeVars, rtVars, subVars, drvVars>>

\* one test of the loop condition, with the loop body or the return
\* (fileScanner.ts:198-203)
GenerateOutputPathProbe ==
  /\ gen.pc = "loop"
  /\ gen' = IF ExistsSync(gen.fs, gen.cwd, gen.outputPath)
              THEN [gen EXCEPT !.counter = NextCounter(@),
                               !.outputPath = Join(gen.dir,
                                                   OutputName(gen.baseName,
                                                              NextCounter(gen.counter),
                                                              gen.format))]
              ELSE [gen EXCEPT !.pc = "done"]
  /\ UNCHANGED <<dispVars, chanVars, workerVars, uiVars, ffiVars, convVars, geomVars,
                 sizeVars, tempVars, pipeVars, rtVars, subVars, drvVars>>

(***************************************************************************)
(* Subprocess estimation of one format: estimateFileSizeWithTempFile        *)
(* (magickShared.ts:43-79, used by the worker) and estimateFileSizeShell    *)
(* (imageProcessor.ts:367-411, the same body inside a try/catch).           *)
(***************************************************************************)
\* calls explored, one after the other
MaxTempCalls == 2

\* the locals of the call in execution or finished last, with the files that
\* exist under /tmp and the paths unlink was called on; uuid stands for
\* crypto.randomUUID(), a value no earlier call had
NoTemp ==
  [pc |-> "idle", catching |-> FALSE, format |-> "", uuid |-> 0, tempPath |-> << >>,
   files |-> {}, unlinked |-> {}, result |-> "none"]

\* `/tmp/magick-estimate-${crypto.randomUUID()}.${format}`
TempPath(uuid, format) == <<"/tmp/magick-estimate-", ToString(uuid), ".", format>>

\* a call of either function: tempPath and the arguments are built
EstimateTempCall(catching, format) ==
  /\ temp.pc \in {"idle", "done"}
  /\ temp.uuid < MaxTempCalls
  /\ temp' = [temp EXCEPT !.pc = "spawn", !.catching = catching, !.format = format,
                          !.uuid = @ + 1, !.tempPath = TempPath(temp.uuid + 1, format),
                          !.result = "none"]
  /\ UNCHANGED <<dispVars, chanVars, workerVars, uiVars, ffiVars, convVars, geomVars,
                 sizeVars, pathVars, pipeVars, rtVars, subVars, drvVars>>

estimateFileSizeWithTempFile(format) == EstimateTempCall(FALSE, format)

estimateFileSizeShell(format) == EstimateTempCall(TRUE, format)

\* how a call ends when an exception is raised inside it: estimateFileSizeShell
\* catches it and returns a failure, estimateFileSizeWithTempFile lets it out
AfterException(t) == [t EXCEPT !.pc = "done", !.result = IF t.catching THEN "failure" ELSE "threw"]

\* Bun.spawn(['magick', ...args]): it throws or the tool starts
EstimateTempSpawn ==
  /\ temp.pc = "spawn"
  /\ \E spawned \in BOOLEAN :
       temp' = IF spawned THEN [temp EXCEPT !.pc = "running"] ELSE AfterException(temp)
  /\ UNCHANGED <<dispVars, chanVars, workerVars, uiVars, ffiVars, convVars, geomVars,
                 sizeVars, pathVars, pipeVars, rtVars, subVars, drvVars>>

\* the tool ends: it exits with code zero having written the file, or with a
\* non-zero code, or reading its stderr throws; in the last two cases it may
\* have created the file before
EstimateTempExit ==
  /\ temp.pc = "running"
  /\ \E e \in ExitOutcomes, written \in BOOLEAN :
       /\ e = "zero" => written
       /\ LET t == [temp EXCEPT !.files = IF written THEN @ \cup {temp.tempPath} ELSE @]
          IN temp' = IF e = "zero" THEN [t EXCEPT !.pc = "measure"]
                     ELSE IF e = "nonzero" THEN [t EXCEPT !.pc = "done", !.result = "failure"]
                     ELSE AfterException(t)
  /\ UNCHANGED <<dispVars, chanVars, workerVars, uiVars, ffiVars, convVars, geomVars,
                 sizeVars, pathVars, pipeVars, rtVars, subVars, drvVars>>

\* Bun.file(tempPath).size, then unlink(tempPath) with its error swallowed
EstimateTempUnlink ==
  /\ temp.pc = "measure"
  /\ \E removed \in BOOLEAN :
       temp' = [temp EXCEPT !.pc = "done", !.result = "success",
                            !.unlinked = @ \cup {temp.tempPath},
                            !.files = IF removed THEN @ \ {temp.tempPath} ELSE @]
  /\ UNCHANGED <<dispVars, chanVars, workerVars, uiVars, ffiVars, convVars, geomVars,
                 sizeVars, pathVars, pipeVars, rtVars, subVars, drvVars>>

(***************************************************************************)
(* One request carried out by the native pipeline (convertImage,            *)
(* estimateFileSize: magickFFI.ts:452-664) and by the tool with the         *)
(* arguments of buildMagickArgs (magickShared.ts:10-38).  The record keeps   *)
(* the native calls made, with their arguments and results, the size of the *)
(* image in the wand, and the size of the image the tool writes.            *)
(***************************************************************************)
\* sides of the small images explored with every request
MaxSide == 3

\* the images: two large ones, one of them stored rotated, and every small one
PipeImages ==
  {[readable |-> TRUE, raw |-> <<600, 400>>, exif |-> <<1>>],
   [readable |-> TRUE, raw |-> <<400, 600>>, exif |-> <<6>>]}
  \cup {[readable |-> TRUE, raw |-> <<w, h>>, exif |-> << >>] : w, h \in 1..MaxSide}

\* the resize requests <<resizeWidth, resizeHeight>> explored on an image
PipeRequests(img) ==
  IF img.raw[1] > MaxSide
    THEN {<<Null, Null>>, <<300, Null>>, <<500, Null>>, <<Null, 200>>, <<300, 200>>,
          <<300, 300>>, <<1200, Null>>, <<1200, 300>>, <<1200, 800>>}
    ELSE {<<rw, rh>> : rw, rh \in 0..(MaxSide + 1)}

\* Math.round(num / den) for integers num >= 0, den > 0: the quotient of two
\* integers is a half only exactly, and a half goes up
RoundHalfUp(num, den) == (2 * num + den) \div (2 * den)

\* targetWidth and targetHeight (magickFFI.ts:493-506): the missing axis keeps
\* the aspect ratio of the current size
TargetSize_swapped(cw, ch, rw, rh) ==
  IF rw # Null /\ rh = Null THEN <<rw, RoundHalfUp(cw * rw, ch)>>
  ELSE IF rh # Null /\ rw = Null THEN <<RoundHalfUp(ch * rh, cw), rh>>
  ELSE <<rw, rh>>

TargetSize(cw, ch, rw, rh) ==
  IF rw # Null /\ rh = Null THEN <<rw, RoundHalfUp(ch * rw, cw)>>
  ELSE IF rh # Null /\ rw = Null THEN <<RoundHalfUp(cw * rh, ch), rh>>
  ELSE <<rw, rh>>

\* targetWidth <= currentWidth && targetHeight <= currentHeight
ShrinkOnly_eitherAxis(tw, th, cw, ch) == tw <= cw \/ th <= ch

ShrinkOnly(tw, th, cw, ch) == tw <= cw /\ th <= ch

\* one argument of the tool: an option or file name (text), or a value made
\* from numbers (w, h; Null is the empty string)
Arg(text, w, h) == [text |-> text, w |-> w, h |-> h]

\* buildMagickArgs (magickShared.ts:10-38)
buildMagickArgs_resizeFirst(quality, resizeWidth, resizeHeight) ==
  <<Arg("input", Null, Null)>>
  \o (IF resizeWidth # Null \/ resizeHeight # Null
        THEN <<Arg("-resize", Null, Null), Arg("x>", resizeWidth, resizeHeight)>>
        ELSE << >>)
  \o <<Arg("-auto-orient", Null, Null), Arg("-strip", Null, Null),
       Arg("-quality", Null, Null), Arg("number", quality, Null)>>
  \o <<Arg("output", Null, Null)>>

buildMagickArgs(quality, resizeWidth, resizeHeight) ==
  <<Arg("input", Null, Null), Arg("-auto-orient", Null, Null), Arg("-strip", Null, Null),
    Arg("-quality", Null, Null), Arg("number", quality, Null)>>
  \o (IF resizeWidth # Null \/ resizeHeight # Null
        THEN <<Arg("-resize", Null, Null), Arg("x>", resizeWidth, resizeHeight)>>
        ELSE << >>)
  \o <<Arg("output", Null, Null)>>

\* what the tool makes of -resize <W>x<H>> on an image of size w x h: the
\* image is fitted into the box keeping its aspect ratio (one axis given: that
\* axis decides), no side below 1, and no side grows
ToolResize(w, h, g) ==
  LET byWidth == g.h = Null \/ (g.w # Null /\ g.w * h <= g.h * w)
      fitted == IF byWidth THEN <<g.w, RoundHalfUp(h * g.w, w)>>
                           ELSE <<RoundHalfUp(w * g.h, h), g.h>>
      atLeastOne == <<IF fitted[1] < 1 THEN 1 ELSE fitted[1],
                      IF fitted[2] < 1 THEN 1 ELSE fitted[2]>>
  IN <<IF w < atLeastOne[1] THEN w ELSE atLeastOne[1],
       IF h < atLeastOne[2] THEN h ELSE atLeastOne[2]>>

\* the size of the image the tool writes when run with args on img
ToolOutputSize(img, args) ==
  LET oriented == IF \E i \in 1..Len(args) : args[i].text = "-auto-orient"
                    THEN ResolveDimensions(img.raw[1], img.raw[2],
                                           MagickGetImageOrientation(img))
                    ELSE img.raw
      at == {i \in 1..(Len(args) - 1) : args[i].text = "-resize"}
  IN IF at = {} THEN oriented
     ELSE ToolResize(oriented[1], oriented[2], args[(CHOOSE i \in at : TRUE) + 1])

NoPipe ==
  [pc |-> "idle", kind |-> "none", image |-> [readable |-> FALSE, raw |-> <<0, 0>>,
                                              exif |-> << >>],
   rw |-> Null, rh |-> Null, quality |-> 0, step |-> 0, exit |-> "",
   width |-> 0, height |-> 0, before |-> << >>, skipped |-> FALSE, calls |-> << >>,
   args |-> << >>, toolSize |-> << >>]

\* the size of the image in the wand after the native call name returned r
SizeAfterCall(p, name, r, target) ==
  IF r # "ok" THEN <<p.width, p.height>>
  ELSE IF name = "read" THEN p.image.raw
  ELSE IF name = "orient"
    THEN ResolveDimensions(p.width, p.height, MagickGetImageOrientation(p.image))
  ELSE IF name = "resize" THEN target
  ELSE <<p.width, p.height>>

\* the next step of the native pipeline: no call when no resize is requested
\* or the target would enlarge, else one native call; MagickResizeImage
\* refuses a side of 0
NativePipelineStep ==
  /\ pipe.pc = "native"
  /\ pipe.exit = ""
  /\ LET name == Pipeline(pipe.kind)[pipe.step]
         target == TargetSize(pipe.width, pipe.height, pipe.rw, pipe.rh)
     IN IF name = "resize" /\ pipe.rw = Null /\ pipe.rh = Null
          THEN pipe' = [pipe EXCEPT !.step = @ + 1]
        ELSE IF name = "resize" /\ ~ShrinkOnly(target[1], target[2], pipe.width, pipe.height)
          THEN pipe' = [pipe EXCEPT !.step = @ + 1, !.skipped = TRUE,
                                    !.before = <<pipe.width, pipe.height>>]
        ELSE \E r \in StepOutcomes :
               /\ (name = "resize" /\ (target[1] = 0 \/ target[2] = 0)) => r # "ok"
               /\ LET args == IF name = "resize" THEN target ELSE <<0, 0>>
                      size == SizeAfterCall(pipe, name, r, args)
                  IN pipe' = AfterNativeStep(
                               [pipe EXCEPT !.calls = Append(@, [name |-> name, w |-> args[1],
                                                                 h |-> args[2], result |-> r]),
                                            !.before = IF name = "resize"
                                                         THEN <<pipe.width, pipe.height>>
                                                         ELSE @,
                                            !.width = size[1],
                                            !.height = size[2]], r)
  /\ UNCHANGED <<dispVars, chanVars, workerVars, uiVars, ffiVars, convVars, geomVars,
                 sizeVars, pathVars, tempVars, rtVars, subVars, drvVars>>

\* the same request given to the tool: magick with buildMagickArgs(...)
RunTool ==
  /\ pipe.pc = "native"
  /\ pipe.exit # ""
  /\ LET args == buildMagickArgs(pipe.quality, pipe.rw, pipe.rh)
     IN pipe' = [pipe EXCEPT !.pc = "done", !.args = args,
                             !.toolSize = ToolOutputSize(pipe.image, args)]
  /\ UNCHANGED <<dispVars, chanVars, workerVars, uiVars, ffiVars, convVars, geomVars,
                 sizeVars, pathVars, tempVars, rtVars, subVars, drvVars>>


(***************************************************************************)
(* The singleton of magickFFI.ts and the process-wide ImageMagick runtime  *)
(* (magickFFI.ts:294-334, 672-736). The main thread and the estimation     *)
(* worker each load the module, so each has its own magickFFIInstance and  *)
(* initError; what MagickWandGenesis sets up and MagickWandTerminus tears  *)
(* down belongs to the process. Every function here is synchronous: one    *)
(* call is one step.                                                       *)
(***************************************************************************)
MaxInstances == 3

MaxRuntimeCalls == 4

\* the threads that import magickFFI.ts
Threads == {"main", "worker"}

\* Bun.env.MAGICK_USE_FFI: undefined or a string
EnvValues == {"undefined", "false", "true", "0"}

\* useFFI() (imageProcessor.ts:107-109, fileScanner.ts:11-13,
\* estimateWorker.ts:84)
useFFI_truthy(env) == env \in {"true"}

useFFI(env) == env # "false"

\* a MagickFFI object after its constructor, with the history of its global
\* setups and teardowns
MagickFFI == [lib |-> FALSE, initialized |-> FALSE, genesis |-> 0, terminus |-> 0]

\* let magickFFIInstance = null; let initError = null; no handler registered
NoModule == [instance |-> Null, initError |-> Null, handlers |-> 0, exited |-> FALSE]

NoCall == [call |-> "none", thread |-> "none", returned |-> Null, threw |-> Null,
           available |-> FALSE, probed |-> FALSE, nativeCalls |-> FALSE,
           path |-> "none"]

NoRuntime == [env |-> "undefined", inst |-> << >>,
              mod |-> [t \in Threads |-> NoModule],
              up |-> FALSE, errors |-> 0, loads |-> 0, calls |-> 0, last |-> NoCall]

\* the object x after x.init() met outcome (magickFFI.ts:303-323)
InstanceAfterInit(x, outcome) ==
  IF x.initialized THEN x
  ELSE IF outcome = "ok"
    THEN [x EXCEPT !.lib = TRUE, !.initialized = TRUE, !.genesis = @ + 1]
  ELSE IF outcome = "genesis-throw" THEN [x EXCEPT !.lib = TRUE]
  ELSE x

\* x.init() throws
InitThrows(x, outcome) == ~x.initialized /\ outcome # "ok"

\* the object x after x.cleanup() (magickFFI.ts:328-334)
InstanceAfterCleanup_unguarded(x) ==
  [x EXCEPT !.initialized = FALSE, !.terminus = @ + 1]

InstanceAfterCleanup(x) ==
  IF x.lib /\ x.initialized
    THEN [x EXCEPT !.initialized = FALSE, !.terminus = @ + 1]
    ELSE x

\* the process after object i became x: dlopen was called or not, and a
\* MagickWandGenesis or MagickWandTerminus call acted on the runtime
WithInstance(r, i, x, loaded) ==
  [r EXCEPT !.inst[i] = x,
            !.loads = IF loaded THEN @ + 1 ELSE @,
            !.up = IF x.genesis > r.inst[i].genesis THEN TRUE
                   ELSE IF x.terminus > r.inst[i].terminus THEN FALSE
                   ELSE @]

RuntimeInit(r, i, outcome) ==
  WithInstance(r, i, InstanceAfterInit(r.inst[i], outcome), ~r.inst[i].initialized)

RuntimeCleanup(r, i) ==
  WithInstance(r, i, InstanceAfterCleanup(r.inst[i]), FALSE)

\* getMagickFFI() on thread t (magickFFI.ts:679-712): the process after the
\* call, the object returned and the error thrown
GetMagickFFIResult(r, t, outcome) ==
  LET i == Len(r.inst) + 1
      after == RuntimeInit([r EXCEPT !.inst = Append(@, MagickFFI)], i, outcome)
  IN IF r.mod[t].initError # Null
       THEN [rt |-> r, returned |-> Null, threw |-> r.mod[t].initError]
     ELSE IF r.mod[t].instance # Null
       THEN [rt |-> r, returned |-> r.mod[t].instance, threw |-> Null]
     ELSE IF outcome = "ok"
       THEN [rt |-> [after EXCEPT !.mod[t].instance = i, !.mod[t].handlers = @ + 1],
             returned |-> i, threw |-> Null]
       ELSE [rt |-> [after EXCEPT !.errors = @ + 1, !.mod[t].initError = r.errors + 1],
             returned |-> Null, threw |-> r.errors + 1]

\* a call on thread t can be made: the thread runs, and an object can still
\* be constructed where the call constructs one
CanCall(t) ==
  /\ rt.calls < MaxRuntimeCalls
  /\ ~rt.mod[t].exited
  /\ ~rt.mod["main"].exited

CanGet(t) ==
  /\ CanCall(t)
  /\ (rt.mod[t].initError = Null /\ rt.mod[t].instance = Null)
       => Len(rt.inst) < MaxInstances

\* the process r after a call that is recorded as c
Called(r, c) == [r EXCEPT !.calls = @ + 1, !.last = c]

\* getMagickFFI() (magickFFI.ts:679-712)
getMagickFFI(t) ==
  /\ CanGet(t)
  /\ \E outcome \in InitOutcomes :
       LET res == GetMagickFFIResult(rt, t, outcome)
       IN rt' = Called(res.rt, [NoCall EXCEPT !.call = "getMagickFFI", !.thread = t,
                                              !.returned = res.returned,
                                              !.threw = res.threw])
  /\ UNCHANGED <<dispVars, chanVars, workerVars, uiVars, ffiVars, convVars, geomVars,
                 sizeVars, pathVars, tempVars, pipeVars, subVars, drvVars>>

\* isFFIAvailable() (magickFFI.ts:718-725)
isFFIAvailable(t) ==
  /\ CanGet(t)
  /\ \E outcome \in InitOutcomes :
       LET res == GetMagickFFIResult(rt, t, outcome)
       IN rt' = Called(res.rt, [NoCall EXCEPT !.call = "isFFIAvailable", !.thread = t,
                                              !.available = (res.threw = Null)])
  /\ UNCHANGED <<dispVars, chanVars, workerVars, uiVars, ffiVars, convVars, geomVars,
                 sizeVars, pathVars, tempVars, pipeVars, subVars, drvVars>>

\* resetMagickFFI() (magickFFI.ts:730-736)
resetMagickFFI(t) ==
  /\ CanCall(t)
  /\ LET i == rt.mod[t].instance
         cleaned == IF i # Null
                      THEN [RuntimeCleanup(rt, i) EXCEPT !.mod[t].instance = Null]
                      ELSE rt
     IN rt' = Called([cleaned EXCEPT !.mod[t].initError = Null],
                     [NoCall EXCEPT !.call = "resetMagickFFI", !.thread = t])
  /\ UNCHANGED <<dispVars, chanVars, workerVars, uiVars, ffiVars, convVars, geomVars,
                 sizeVars, pathVars, tempVars, pipeVars, subVars, drvVars>>

\* new MagickFFI() by a caller that keeps the object (magickFFI.ts:298)
Construct ==
  /\ CanCall("main")
  /\ Len(rt.inst) < MaxInstances
  /\ rt' = Called([rt EXCEPT !.inst = Append(@, MagickFFI)],
                  [NoCall EXCEPT !.call = "new", !.thread = "main",
                                 !.returned = Len(rt.inst) + 1])
  /\ UNCHANGED <<dispVars, chanVars, workerVars, uiVars, ffiVars, convVars, geomVars,
                 sizeVars, pathVars, tempVars, pipeVars, subVars, drvVars>>

\* init() called on an object the caller holds
InstanceInit(i, outcome) ==
  /\ CanCall("main")
  /\ i \in 1..Len(rt.inst)
  /\ rt' = Called(RuntimeInit(rt, i, outcome),
                  [NoCall EXCEPT !.call = "init", !.thread = "main", !.returned = i,
                                 !.threw = IF InitThrows(rt.inst[i], outcome)
                                             THEN rt.errors + 1 ELSE Null])
  /\ UNCHANGED <<dispVars, chanVars, workerVars, uiVars, ffiVars, convVars, geomVars,
                 sizeVars, pathVars, tempVars, pipeVars, subVars, drvVars>>

\* cleanup() called on an object the caller holds
InstanceCleanup(i) ==
  /\ CanCall("main")
  /\ i \in 1..Len(rt.inst)
  /\ rt' = Called(RuntimeCleanup(rt, i),
                  [NoCall EXCEPT !.call = "cleanup", !.thread = "main", !.returned = i])
  /\ UNCHANGED <<dispVars, chanVars, workerVars, uiVars, ffiVars, convVars, geomVars,
                 sizeVars, pathVars, tempVars, pipeVars, subVars, drvVars>>

\* n runs of a registered handler body, magickFFIInstance?.cleanup()
\* (magickFFI.ts:690-702)
RECURSIVE HandlerRuns(_, _, _)
HandlerRuns(r, t, n) ==
  IF n = 0 \/ r.mod[t].instance = Null THEN r
  ELSE HandlerRuns(RuntimeCleanup(r, r.mod[t].instance), t, n - 1)

\* the process exits or receives SIGINT / SIGTERM: a signal runs the first
\* signal handler, whose process.exit(0) then runs every exit handler
ProcessExit(t, signal) ==
  /\ CanCall(t)
  /\ LET h == rt.mod[t].handlers
         runs == IF signal /\ h > 0 THEN h + 1 ELSE h
     IN rt' = Called([HandlerRuns(rt, t, runs) EXCEPT !.mod[t].exited = TRUE],
                     [NoCall EXCEPT !.call = IF signal THEN "signal" ELSE "exit",
                                    !.thread = t])
  /\ UNCHANGED <<dispVars, chanVars, workerVars, uiVars, ffiVars, convVars, geomVars,
                 sizeVars, pathVars, tempVars, pipeVars, subVars, drvVars>>

\* the requests that choose between the native and the subprocess path
RequestKinds == {"convert", "estimate", "dimensions"}

\* the choice of path in convertToFormat (imageProcessor.ts:252-287),
\* estimateFileSizeForFormats (imageProcessor.ts:426-447), estimateForFormat
\* (estimateWorker.ts:43-61) and getImageDimensions (fileScanner.ts:81-105):
\* the flag, then isFFIAvailable(), then the method of the singleton, whose
\* result r decides whether the subprocess is used
Request(t, kind) ==
  /\ CanGet(t)
  /\ t = "worker" => kind = "estimate"
  /\ IF ~useFFI(rt.env)
       THEN rt' = Called(rt, [NoCall EXCEPT !.call = kind, !.thread = t,
                                            !.path = "shell"])
       ELSE \E outcome \in InitOutcomes, r \in StepOutcomes :
              LET res == GetMagickFFIResult(rt, t, outcome)
              IN rt' = Called(res.rt,
                         [NoCall EXCEPT !.call = kind, !.thread = t,
                                        !.probed = TRUE,
                                        !.available = (res.threw = Null),
                                        !.returned = res.returned,
                                        !.nativeCalls = (res.threw = Null),
                                        !.path = IF res.threw = Null /\ r = "ok"
                                                   THEN "native" ELSE "shell"])
  /\ UNCHANGED <<dispVars, chanVars, workerVars, uiVars, ffiVars, convVars, geomVars,
                 sizeVars, pathVars, tempVars, pipeVars, subVars, drvVars>>

(***************************************************************************)
(* The subprocess operations: getImageDimensionsShell (fileScanner.ts:     *)
(* 27-65), convertToFormatShell (imageProcessor.ts:190-223),               *)
(* estimateFileSizeShell (imageProcessor.ts:367-411) and                   *)
(* estimateFileSizeWithTempFile (magickShared.ts:43-79). Each spawns the   *)
(* tool, reads one of its streams, awaits its exit and builds its result   *)
(* from the exit code. A text is a sequence of pieces, each a run of       *)
(* whitespace or a run of other characters.                                *)
(***************************************************************************)
SubprocessKinds == {"dimensions", "convert", "estimateShell", "estimateTempFile"}

\* proc.exitCode after the exit
ExitCodes == {0, 1, 2}

WhitespacePieces == {" ", "\n"}

\* what the tool can have written to stderr
StderrTexts ==
  { << >>, <<"\n">>, <<" ", "\n">>,
    <<"magick: no decode delegate", "\n">>,
    <<" ", "magick: unable to open image", " ", "a.png", "\n">> }

\* what magick identify can have printed, as the numbers of
\* output.trim().split(' '); the other operations do not read stdout
StdoutParts == { << >>, <<600, 400>>, <<400, 600, 6>> }

\* the size of the file the tool wrote, as Bun.file(tempPath).size gives it
WrittenSizes == {0, 5}

\* String.prototype.trim: the whitespace at both ends is dropped
RECURSIVE TrimStart(_)
TrimStart(text) ==
  IF text = << >> THEN << >>
  ELSE IF Head(text) \in WhitespacePieces THEN TrimStart(Tail(text))
  ELSE text

RECURSIVE TrimEnd(_)
TrimEnd(text) ==
  IF text = << >> THEN << >>
  ELSE IF text[Len(text)] \in WhitespacePieces THEN TrimEnd(SubSeq(text, 1, Len(text) - 1))
  ELSE text

Trim(text) == TrimEnd(TrimStart(text))

\* `ImageMagick exited with code ${proc.exitCode}`
ExitMessage(code) == <<"ImageMagick exited with code ", ToString(code)>>

\* stderr.trim() || `ImageMagick exited with code ${proc.exitCode}`
\* (imageProcessor.ts:207-211, 389-393, magickShared.ts:61-66)
FailureText(stderr, code) ==
  IF Trim(stderr) # << >> THEN Trim(stderr) ELSE ExitMessage(code)

\* error instanceof Error ? error.message : 'Unknown error occurred'
ExceptionText == <<"spawn: exception">>

\* what an operation gives its caller: dims is << >> for null, outputPath
\* and estimatedSize are << >> for undefined
NoSubResult == [threw |-> FALSE, success |-> FALSE, error |-> << >>, dims |-> << >>,
                outputPath |-> << >>, estimatedSize |-> << >>]

\* the result after an exception inside the operation: only
\* estimateFileSizeWithTempFile has no try around the subprocess
ResultAfterThrow(kind) ==
  IF kind = "estimateTempFile" THEN [NoSubResult EXCEPT !.threw = TRUE]
  ELSE IF kind = "dimensions" THEN NoSubResult
  ELSE [NoSubResult EXCEPT !.error = ExceptionText]

\* the result after the tool exited with code
ResultAfterExit_stdoutFirst(kind, code, stdout, stderr, path, size) ==
  IF kind = "dimensions"
    THEN [NoSubResult EXCEPT !.success = (ParseIdentify(stdout) # << >>),
                             !.dims = ParseIdentify(stdout)]
  ELSE IF code # 0 THEN [NoSubResult EXCEPT !.error = FailureText(stderr, code)]
  ELSE IF kind = "convert"
    THEN [NoSubResult EXCEPT !.success = TRUE, !.outputPath = <<path>>]
  ELSE [NoSubResult EXCEPT !.success = TRUE, !.estimatedSize = <<size>>]

ResultAfterExit(kind, code, stdout, stderr, path, size) ==
  IF kind = "dimensions"
    THEN IF code # 0 THEN NoSubResult
         ELSE [NoSubResult EXCEPT !.success = (ParseIdentify(stdout) # << >>),
                                  !.dims = ParseIdentify(stdout)]
  ELSE IF code # 0 THEN [NoSubResult EXCEPT !.error = FailureText(stderr, code)]
  ELSE IF kind = "convert"
    THEN [NoSubResult EXCEPT !.success = TRUE, !.outputPath = <<path>>]
  ELSE [NoSubResult EXCEPT !.success = TRUE, !.estimatedSize = <<size>>]

\* no subprocess operation is in execution; code is << >> while no exit code
\* has been read
NoSub == [pc |-> "idle", kind |-> "none", code |-> << >>, stdout |-> << >>,
          stderr |-> << >>, result |-> NoSubResult]

\* an operation is called: Bun.spawn throws or starts the tool
SubprocessSpawn(kind) ==
  /\ sub.pc = "idle"
  /\ \E spawned \in BOOLEAN :
       sub' = IF spawned
                THEN [NoSub EXCEPT !.pc = "running", !.kind = kind]
                ELSE [NoSub EXCEPT !.pc = "done", !.kind = kind,
                                   !.result = ResultAfterThrow(kind)]
  /\ UNCHANGED <<dispVars, chanVars, workerVars, uiVars, ffiVars, convVars, geomVars,
                 sizeVars, pathVars, tempVars, pipeVars, rtVars, drvVars>>

\* the stream is read and the exit awaited: either throws, or the operation
\* goes on to its test of proc.exitCode and returns
SubprocessExit ==
  /\ sub.pc = "running"
  /\ \/ sub' = [sub EXCEPT !.pc = "done", !.result = ResultAfterThrow(sub.kind)]
     \/ \E code \in ExitCodes, stdout \in StdoutParts, stderr \in StderrTexts,
           size \in WrittenSizes :
          sub' = [sub EXCEPT !.pc = "done", !.code = <<code>>,
                             !.stdout = stdout, !.stderr = stderr,
                             !.result = ResultAfterExit(sub.kind, code, stdout, stderr,
                                                        "/d/a.webp", size)]
  /\ UNCHANGED <<dispVars, chanVars, workerVars, uiVars, ffiVars, convVars, geomVars,
                 sizeVars, pathVars, tempVars, pipeVars, rtVars, drvVars>>

\* the caller has taken the result
SubprocessReturn ==
  /\ sub.pc = "done"
  /\ sub' = NoSub
  /\ UNCHANGED <<dispVars, chanVars, workerVars, uiVars, ffiVars, convVars, geomVars,
                 sizeVars, pathVars, tempVars, pipeVars, rtVars, drvVars>>

(***************************************************************************)
(* The convert key of the UI driver (index.tsx:130-221, 224-293). Enter on *)
(* the convert section calls handleConvert without awaiting it, so each    *)
(* call is a run of its own that is suspended at its awaits: validateResize*)
(* (only when a resize is entered), processImage, and scanDirectory after  *)
(* a success. The keyboard handler and each stretch between two awaits run *)
(* to their end before anything else on the thread.                        *)
(***************************************************************************)
MaxRuns == 2

MaxKeys == 3

\* no handleConvert run so far; status is the type of the status() signal
NoDriver == [runs |-> << >>, keys |-> 0, status |-> "none"]

\* a handleConvert run suspended at an await, or returned
NewRun(pc, resize) == [pc |-> pc, resize |-> resize, result |-> "none"]

\* handleConvert up to its first await (index.tsx:130-154)
HandleConvertEntry(d, busy, image, formats, resize) ==
  IF ~image \/ busy THEN [drv |-> d, processing |-> busy]
  ELSE IF formats = 0 THEN [drv |-> [d EXCEPT !.status = "error"], processing |-> busy]
  ELSE IF resize
    THEN [drv |-> [d EXCEPT !.runs = Append(@, NewRun("validating", TRUE))],
          processing |-> busy]
    ELSE [drv |-> [d EXCEPT !.runs = Append(@, NewRun("converting", FALSE)),
                            !.status = "processing"],
          processing |-> TRUE]

\* the keyboard handler on Enter with the convert section focused
\* (index.tsx:231, 284-288): nothing while processing(), else handleConvert()
KeyReturn(image, formats, resize) ==
  /\ drv.keys < MaxKeys
  /\ Len(drv.runs) < MaxRuns
  /\ LET pressed == [drv EXCEPT !.keys = @ + 1]
         after == IF processing
                    THEN [drv |-> pressed, processing |-> processing]
                    ELSE HandleConvertEntry(pressed, processing, image, formats, resize)
     IN /\ drv' = after.drv
        /\ processing' = after.processing
  /\ UNCHANGED <<params, currentEstimationId, timers, sizeEstimates, estimating,
                 changes, staleDispatch>>
  /\ UNCHANGED <<dispVars, chanVars, workerVars, ffiVars, convVars, geomVars,
                 sizeVars, pathVars, tempVars, pipeVars, rtVars, subVars>>

\* validateResize resolves in run k (index.tsx:146-156): an invalid resize
\* sets the status and returns, a valid one goes on to setProcessing(true)
\* and the call of processImage
ValidationResolved(k) ==
  /\ k \in 1..Len(drv.runs)
  /\ drv.runs[k].pc = "validating"
  /\ \E valid \in BOOLEAN :
       IF valid
         THEN /\ drv' = [drv EXCEPT !.runs[k].pc = "converting", !.status = "processing"]
              /\ processing' = TRUE
         ELSE /\ drv' = [drv EXCEPT !.runs[k].pc = "returned",
                                    !.runs[k].result = "invalid", !.status = "error"]
              /\ UNCHANGED processing
  /\ UNCHANGED <<params, currentEstimationId, timers, sizeEstimates, estimating,
                 changes, staleDispatch>>
  /\ UNCHANGED <<dispVars, chanVars, workerVars, ffiVars, convVars, geomVars,
                 sizeVars, pathVars, tempVars, pipeVars, rtVars, subVars>>

\* what the awaited processImage can do
ProcessOutcomes == {"success", "failure", "throw"}

\* processImage settles in run k (index.tsx:161-215): a success goes on to
\* await scanDirectory; a failure or an exception sets the status and the
\* finally block runs setProcessing(false)
ProcessImageSettled(k) ==
  /\ k \in 1..Len(drv.runs)
  /\ drv.runs[k].pc = "converting"
  /\ \E outcome \in ProcessOutcomes :
       IF outcome = "success"
         THEN /\ drv' = [drv EXCEPT !.runs[k].pc = "refreshing", !.status = "success"]
              /\ UNCHANGED processing
         ELSE /\ drv' = [drv EXCEPT !.runs[k].pc = "returned",
                                    !.runs[k].result = outcome, !.status = "error"]
              /\ processing' = FALSE
  /\ UNCHANGED <<params, currentEstimationId, timers, sizeEstimates, estimating,
                 changes, staleDispatch>>
  /\ UNCHANGED <<dispVars, chanVars, workerVars, ffiVars, convVars, geomVars,
                 sizeVars, pathVars, tempVars, pipeVars, rtVars, subVars>>

\* scanDirectory settles in run k (index.tsx:183-206): the file list is
\* refreshed, or the catch sets the status; then finally: setProcessing(false)
RefreshSettled(k) ==
  /\ k \in 1..Len(drv.runs)
  /\ drv.runs[k].pc = "refreshing"
  /\ \E threw \in BOOLEAN :
       drv' = [drv EXCEPT !.runs[k].pc = "returned",
                          !.runs[k].result = IF threw THEN "throw" ELSE "success",
                          !.status = IF threw THEN "error" ELSE @]
  /\ processing' = FALSE
  /\ UNCHANGED <<params, currentEstimationId, timers, sizeEstimates, estimating,
                 changes, staleDispatch>>
  /\ UNCHANGED <<dispVars, chanVars, workerVars, ffiVars, convVars, geomVars,
                 sizeVars, pathVars, tempVars, pipeVars, rtVars, subVars>>

(***************************************************************************)
(* Initial state: the module-level initialisers of each source file.       *)
(***************************************************************************)
InitDispatcher ==
  /\ requestId = 0
  /\ estimateWorker = FALSE
  /\ pendingRequests = EmptyMap
  /\ promises = << >>
  /\ sentCount = [id \in Ids |-> 0]
  /\ discarded = {}
  /\ toWorker = << >>
  /\ toMain = << >>

InitWorker ==
  /\ useFFIEnv \in BOOLEAN
  /\ workerFFI = "unset"
  /\ running = Null
  /\ jobs = [id \in Ids |-> NoJob]
  /\ received = << >>
  /\ postedCount = [id \in Ids |-> 0]

InitUI ==
  /\ params = ParamsOf(0, <<"webp">>, 80, Null)
  /\ processing = FALSE
  /\ currentEstimationId = Null
  /\ timers = << >>
  /\ sizeEstimates = << >>
  /\ estimating = FALSE
  /\ changes = 0
  /\ staleDispatch = FALSE

InitFFI ==
  /\ lib = FALSE
  /\ initialized = FALSE
  /\ wands = {}
  /\ nextWand = 0
  /\ op = NoOp
  /\ opLog = << >>
  /\ loads = 0
  /\ genesis = 0
  /\ terminus = 0
  /\ lifecycle = << >>

InitConv ==
  /\ mainFFI = "unset"
  /\ conv = NoConv

\* no image is being looked at, no entry is being built
InitGeom == geo = NoGeo

InitSizing == sizing = NoSizing

InitPath == gen = NoGen

InitTemp == temp = NoTemp

InitPipe == pipe = NoPipe

InitRuntime == rt = NoRuntime

InitSub == sub = NoSub

InitDriver == drv = NoDriver

Init ==
  /\ InitDispatcher /\ InitWorker /\ InitUI /\ InitFFI /\ InitConv /\ InitGeom /\ InitSizing
  /\ InitPath /\ InitTemp /\ InitPipe /\ InitRuntime /\ InitSub /\ InitDriver

\* the steps of the estimation worker
WorkerNext ==
  \/ WorkerReceive
  \/ \E id \in Ids : EstimateForFormatNative(id)
  \/ \E id \in Ids : EstimateForFormatSpawn(id)
  \/ \E id \in Ids : EstimateForFormatExit(id)
  \/ \E id \in Ids : PostResponse(id)

\* the dispatcher under an arbitrary caller, with the worker
Next ==
  \/ \E ps \in CallerParams : estimateFileSizeAsync(ps)
  \/ \E id \in Ids : cancelEstimation(id)
  \/ WorkerOnMessage
  \/ WorkerNext

Spec == Init /\ [][Next]_vars


\* the steps of one processImage run
ConvertNext ==
  \/ \E f \in ConvertFormatLists, rq \in ResizeRequests : ProcessImageStart(f, rq)
  \/ \E dims \in GeometryResults : ProcessImageValidate(dims)
  \/ ConvertToFormatNative
  \/ ConvertToFormatShell
  \/ ProcessImageFinish

\* the state right after a caller submitted its first estimation request ps
InitAfterSubmit(ps) ==
  /\ requestId = 1
  /\ estimateWorker = TRUE
  /\ pendingRequests = MapSet(EmptyMap, 1, 1)
  /\ promises = <<NewPromise(1, ps, FALSE)>>
  /\ sentCount = [id \in Ids |-> IF id = 1 THEN 1 ELSE 0]
  /\ discarded = {}
  /\ toWorker = <<[id |-> 1, req |-> ps]>>
  /\ toMain = << >>

InitOrch ==
  /\ \E ps \in CallerParams : InitAfterSubmit(ps)
  /\ InitWorker /\ InitUI /\ InitFFI /\ InitConv /\ InitGeom /\ InitSizing
  /\ InitPath /\ InitTemp /\ InitPipe /\ InitRuntime /\ InitSub /\ InitDriver

\* the per-format orchestration of both paths: a conversion on the main
\* thread while the worker serves an estimation request
NextOrch ==
  \/ WorkerNext
  \/ ConvertNext

SpecOrch == InitOrch /\ [][NextOrch]_vars

\* one MagickFFI instance under an arbitrary caller
NextFFI ==
  \/ \E outcome \in InitOutcomes : init(outcome)
  \/ cleanup
  \/ \E created \in BOOLEAN : getImageDimensions(created)
  \/ \E resize \in BOOLEAN, created \in BOOLEAN : convertImage(resize, created)
  \/ \E resize \in BOOLEAN, created \in BOOLEAN : estimateFileSize(resize, created)
  \/ NativeStep
  \/ NativeFinally

SpecFFI == Init /\ [][NextFFI]_vars

\* the UI driver with the dispatcher and the worker
NextUI ==
  \/ \E ps \in UIParams : ParamChange(ps)
  \/ StartConvert
  \/ FinishConvert
  \/ TimerFire
  \/ WorkerOnMessage
  \/ WorkerNext

SpecUI == Init /\ [][NextUI]_vars

\* getImageDimensions is called on an image file
InitGeomCall ==
  /\ InitDispatcher /\ InitWorker /\ InitUI /\ InitFFI /\ InitConv /\ InitSizing
  /\ InitPath /\ InitTemp /\ InitPipe /\ InitRuntime /\ InitSub /\ InitDriver
  /\ \E img \in ImageFiles : geo = [NoGeo EXCEPT !.pc = "start", !.image = img]

\* the geometry resolvers on one image
NextGeom ==
  \/ getImageDimensionsFFI
  \/ GetImageDimensionsNative
  \/ GetImageDimensionsShell

SpecGeom == InitGeomCall /\ [][NextGeom]_vars

\* a request's originalSize and the size estimateForFormat measured for one
\* of its formats
InitSizingCall ==
  /\ InitDispatcher /\ InitWorker /\ InitUI /\ InitFFI /\ InitConv /\ InitGeom
  /\ InitPath /\ InitTemp /\ InitPipe /\ InitRuntime /\ InitSub /\ InitDriver
  /\ \E f \in OutputFormats, o \in 1..MaxOriginalSize, e \in 0..MaxEstimatedSize :
       sizing = [NoSizing EXCEPT !.pc = "measured", !.format = f,
                                 !.originalSize = o, !.estimatedSize = e]

NextSizing == PushEstimateEntry

SpecSizing == InitSizingCall /\ [][NextSizing]_vars


\* generateOutputPath is called in a working directory, on an input path and
\* a format, with some of the files next to the input existing
InitPathCall ==
  /\ InitDispatcher /\ InitWorker /\ InitUI /\ InitFFI /\ InitConv /\ InitGeom /\ InitSizing
  /\ InitTemp /\ InitPipe /\ InitRuntime /\ InitSub /\ InitDriver
  /\ \E call \in PathCalls, f \in OutputFormats :
     \E fs \in SUBSET FilesNear(call) :
       gen = [NoGen EXCEPT !.pc = "call", !.cwd = call.cwd, !.inputPath = call.inputPath,
                           !.format = f, !.fs = fs, !.folder = call.folder,
                           !.stem = call.stem]

NextPath ==
  \/ GenerateOutputPathStart
  \/ GenerateOutputPathProbe

\* the call is synchronous and runs to its end
SpecPath == InitPathCall /\ [][NextPath]_vars /\ WF_vars(NextPath)


\* subprocess estimations of single formats, one after the other
NextTemp ==
  \/ \E f \in OutputFormats : estimateFileSizeWithTempFile(f)
  \/ \E f \in OutputFormats : estimateFileSizeShell(f)
  \/ EstimateTempSpawn
  \/ EstimateTempExit
  \/ EstimateTempUnlink

SpecTemp == Init /\ [][NextTemp]_vars


\* convertImage or estimateFileSize is called on an image with a resize
\* request and has created its wand
InitPipeCall ==
  /\ InitDispatcher /\ InitWorker /\ InitUI /\ InitFFI /\ InitConv /\ InitGeom /\ InitSizing
  /\ InitPath /\ InitTemp /\ InitRuntime /\ InitSub /\ InitDriver
  /\ \E kind \in {"convert", "estimate"}, img \in PipeImages :
     \E rq \in PipeRequests(img) :
       pipe = [NoPipe EXCEPT !.pc = "native", !.kind = kind, !.image = img,
                             !.rw = rq[1], !.rh = rq[2], !.quality = 80, !.step = 1]

NextPipe ==
  \/ NativePipelineStep
  \/ RunTool

SpecPipe == InitPipeCall /\ [][NextPipe]_vars

\* the singleton and directly constructed objects under arbitrary callers on
\* both threads, for each value of MAGICK_USE_FFI
InitRuntimeCall ==
  /\ InitDispatcher /\ InitWorker /\ InitUI /\ InitFFI /\ InitConv /\ InitGeom /\ InitSizing
  /\ InitPath /\ InitTemp /\ InitPipe /\ InitSub /\ InitDriver
  /\ \E env \in EnvValues : rt = [NoRuntime EXCEPT !.env = env]
  /\ useFFIEnv = useFFI(rt.env)

NextRuntime ==
  \/ \E t \in Threads : getMagickFFI(t)
  \/ \E t \in Threads : isFFIAvailable(t)
  \/ \E t \in Threads : resetMagickFFI(t)
  \/ Construct
  \/ \E i \in 1..MaxInstances, outcome \in InitOutcomes : InstanceInit(i, outcome)
  \/ \E i \in 1..MaxInstances : InstanceCleanup(i)
  \/ \E t \in Threads, signal \in BOOLEAN : ProcessExit(t, signal)
  \/ \E t \in Threads, kind \in RequestKinds : Request(t, kind)

SpecRuntime == InitRuntimeCall /\ [][NextRuntime]_vars


\* the subprocess operations called one after the other
NextSubprocess ==
  \/ \E kind \in SubprocessKinds : SubprocessSpawn(kind)
  \/ SubprocessExit
  \/ SubprocessReturn

SpecSubprocess == Init /\ [][NextSubprocess]_vars


\* the user on the convert section: Enter pressed at any moment, with or
\* without an image, formats and a resize entered
NextDriver ==
  \/ \E image \in BOOLEAN, formats \in 0..2, resize \in BOOLEAN :
       KeyReturn(image, formats, resize)
  \/ \E k \in 1..MaxRuns : ValidationResolved(k)
  \/ \E k \in 1..MaxRuns : ProcessImageSettled(k)
  \/ \E k \in 1..MaxRuns : RefreshSettled(k)

SpecDriver == Init /\ [][NextDriver]_vars


(***************************************************************************)
(* Properties.                                                             *)
(***************************************************************************)
PromiseIndexes == 1..Len(promises)

PromiseIds == {promises[k].id : k \in PromiseIndexes}

\* a response for id is posted and not yet handled
InFlight(id) == \E i \in 1..Len(toMain) : toMain[i].id = id

\* the response for the request of promise k was handled and found its record
ResolvedByWorker(k) ==
  LET id == promises[k].id
  IN postedCount[id] >= 1 /\ ~InFlight(id) /\ id \notin discarded

\* C1: under every interleaving of worker responses and cancelEstimation calls
\* a future is resolved at most once and never rejected; it is unsettled
\* exactly while the pending map holds its record, so whichever of the
\* response handler and cancelEstimation removes the record delivers the only
\* resolution.
C1_ResolvedAtMostOnce ==
  \A k \in PromiseIndexes :
    /\ promises[k].resolveCalls + promises[k].rejectCalls <= 1
    /\ promises[k].rejectCalls = 0
    /\ promises[k].state # "rejected"
    /\ (promises[k].state = "pending") <=>
         (/\ promises[k].id \in DOMAIN pendingRequests
          /\ pendingRequests[promises[k].id] = k)

\* a cancelled request whose late response was dropped, next to a request the
\* worker answered
C1_Witness ==
  \E j, k \in PromiseIndexes :
    /\ promises[k].resolveCalls = 1
    /\ promises[k].id \in discarded
    /\ promises[j].resolveCalls = 1
    /\ ResolvedByWorker(j)

\* C2: a step that removes the pending record of id without handling a worker
\* response (a cancelEstimation) has settled the future of id, in that same
\* step, as fulfilled with the cancelled outcome; and handling a response whose
\* id has no pending record changes no future and no pending record.
C2_CancelStep(id) ==
  (id \in DOMAIN pendingRequests /\ id \notin DOMAIN pendingRequests' /\ toMain' = toMain)
    => /\ promises'[pendingRequests[id]].state = "fulfilled"
       /\ promises'[pendingRequests[id]].value = FailureResult(CancelledError)
       /\ promises'[pendingRequests[id]].rejectCalls = 0
       /\ toWorker' = toWorker
       /\ \A k \in PromiseIndexes : k # pendingRequests[id] => promises'[k] = promises[k]

C2_LateResponseStep ==
  (toMain # << >> /\ toMain' = Tail(toMain) /\ Head(toMain).id \notin DOMAIN pendingRequests)
    => /\ promises' = promises
       /\ pendingRequests' = pendingRequests

C2_CancelResolvesImmediately ==
  [][(\A id \in Ids : C2_CancelStep(id)) /\ C2_LateResponseStep]_vars

\* a request cancelled while pending, its late response dropped, and another
\* request still pending
C2_Witness ==
  \E j, k \in PromiseIndexes :
    /\ promises[k].state = "fulfilled"
    /\ promises[k].value = FailureResult(CancelledError)
    /\ promises[k].id \in discarded
    /\ promises[j].state = "pending"

\* C3: identifiers are handed out strictly increasing and never reused; the
\* pending map's keys are issued identifiers, each record belongs to the
\* future of its identifier, a future nobody has resolved yet (in particular
\* right after the submit) has its record, and exactly one request message
\* was posted for each issued identifier.
C3_IdsIncreasing ==
  /\ \A j, k \in PromiseIndexes : j < k => promises[j].id < promises[k].id
  /\ DOMAIN pendingRequests \subseteq PromiseIds
  /\ \A id \in DOMAIN pendingRequests :
       /\ pendingRequests[id] \in PromiseIndexes
       /\ promises[pendingRequests[id]].id = id
  /\ \A k \in PromiseIndexes :
       promises[k].resolveCalls + promises[k].rejectCalls = 0
         => promises[k].id \in DOMAIN pendingRequests
  /\ \A id \in Ids : sentCount[id] = (IF id \in PromiseIds THEN 1 ELSE 0)

\* a second submit after the first request was completed or cancelled
C3_Witness ==
  /\ Len(promises) >= 2
  /\ promises[1].state = "fulfilled"
  /\ promises[1].id \notin DOMAIN pendingRequests
  /\ promises[2].id \in DOMAIN pendingRequests

\* no handler of the worker is in progress
WorkerQuiet ==
  /\ running = Null
  /\ \A id \in Ids : jobs[id].pc \notin {"format", "shell", "awaitShell"}

\* C4: every request the worker received is answered with exactly one
\* response, also when the subprocess cannot be spawned or throws: once no
\* handler is in progress every received request has its response, and once
\* the channels are empty as well no future is left pending.
C4_EveryRequestAnswered ==
  WorkerQuiet =>
    /\ \A i \in 1..Len(received) : postedCount[received[i]] = 1
    /\ (toWorker = << >> /\ toMain = << >>) => DOMAIN pendingRequests = {}

\* C5: in the UI driver at most one estimation request is pending in the
\* dispatcher at every moment.
C5_AtMostOnePending == Cardinality(DOMAIN pendingRequests) <= 1

\* C6: in the UI driver a request is dispatched only by the debounce timer of
\* the latest parameter change, and displayed estimates come from a request
\* submitted with the values selected at the moment they are displayed.
C6_DebouncedAndCurrent ==
  /\ ~staleDispatch
  /\ \A k \in 1..Len(sizeEstimates) : sizeEstimates[k].req = sizeEstimates[k].shownFor

\* C7: the outcome of a cancelled estimation is a fulfilled (not rejected)
\* future whose value no worker response carries: a settled future holds the
\* cancelled outcome exactly when cancelEstimation, not a worker response,
\* delivered it, and a worker failure carries a different error.
C7_CancelledDistinct ==
  /\ \A k \in PromiseIndexes :
       promises[k].state # "pending" =>
         /\ promises[k].state = "fulfilled"
         /\ (promises[k].value = FailureResult(CancelledError)) <=> ~ResolvedByWorker(k)
         /\ ResolvedByWorker(k) =>
              (promises[k].value.success \/ promises[k].value.error = EstimateFailedError)
  /\ \A i \in 1..Len(toMain) : toMain[i].error # CancelledError

\* a cancelled estimation next to one the worker failed
C7_Witness ==
  \E j, k \in PromiseIndexes :
    /\ promises[j].state = "fulfilled"
    /\ promises[j].value = FailureResult(CancelledError)
    /\ ResolvedByWorker(k)
    /\ promises[k].value = FailureResult(EstimateFailedError)


\* the finished native operations that created a wand
WandCalls == {i \in 1..Len(opLog) : opLog[i].wand # 0}

\* C8 as stated: every call of a native operation creates exactly one wand
\* and issues exactly one DestroyMagickWand for it before it returns or
\* throws; no wand is alive while no operation is executing.
C8_OneWandPerCall ==
  /\ \A i \in 1..Len(opLog) : opLog[i].wand # 0 /\ opLog[i].destroyed = 1
  /\ op = NoOp => wands = {}

\* C8, amended: a call creates at most one wand (none when it throws at its
\* entry, before the try block); every wand created is destroyed exactly once
\* before its call returns or throws, on the success, failure and exception
\* paths; the only wand alive is that of the operation in execution; no wand
\* belongs to two calls.
C8_WandReleasedOnEveryPath ==
  /\ \A i \in 1..Len(opLog) :
       IF opLog[i].wand = 0
         THEN opLog[i].exit = "throw" /\ opLog[i].destroyed = 0
         ELSE opLog[i].destroyed = 1
  /\ op = NoOp => wands = {}
  /\ op # NoOp => wands = {op.wand} /\ op.wand # 0
  /\ \A i, j \in WandCalls : i # j => opLog[i].wand # opLog[j].wand
  /\ \A i \in WandCalls : opLog[i].wand # op.wand
  /\ nextWand = Cardinality(WandCalls) + (IF op = NoOp THEN 0 ELSE 1)

\* an operation that returned a failure early and one that threw inside its
\* try block, both with their wand destroyed
C8_Witness ==
  \E i, j \in WandCalls :
    /\ opLog[i].exit = "failure"
    /\ opLog[j].exit = "throw"
    /\ wands = {}

\* C9: init() on an initialized instance changes nothing (no library load, no
\* global setup) and does not throw; cleanup() leaves the instance
\* uninitialized and runs the global teardown only if the instance was
\* initialized, so it does nothing on a never-initialized instance and a
\* second cleanup() is a no-op; init(), init(), cleanup() ends uninitialized.
C9_Step ==
  LET n == Len(lifecycle')
      call == lifecycle'[n]
  IN n = Len(lifecycle) + 1 =>
       /\ (call \in {"init", "init-throw"} /\ initialized) =>
            /\ call = "init"
            /\ UNCHANGED <<lib, initialized, loads, genesis, terminus>>
       /\ (call = "init" /\ ~initialized) =>
            /\ initialized' /\ lib'
            /\ loads' = loads + 1 /\ genesis' = genesis + 1
       /\ call = "cleanup" =>
            /\ ~initialized'
            /\ terminus' = terminus + (IF initialized THEN 1 ELSE 0)
            /\ UNCHANGED <<lib, loads, genesis>>
       /\ (call = "cleanup" /\ genesis = 0) =>
            (terminus' = 0 /\ UNCHANGED <<lib, initialized, loads, genesis, wands, opLog>>)
       /\ (n >= 3 /\ lifecycle'[n - 2] = "init" /\ lifecycle'[n - 1] = "init"
             /\ call = "cleanup") => (~initialized' /\ terminus' = terminus + 1)

C9_InitCleanupIdempotent == [][C9_Step]_vars

\* init(), init(), cleanup(): one load, one setup, one teardown
C9_Witness ==
  /\ lifecycle = <<"init", "init", "cleanup">>
  /\ ~initialized
  /\ loads = 1 /\ genesis = 1 /\ terminus = 1

\* what one format's attempt record must satisfy, given the singleton state
\* ffi of the thread that made the attempt
AttemptConsistent(att, ffi) ==
  /\ att.native # "none" => (useFFIEnv /\ ffi = "ready")
  /\ (att.native = "none" /\ att.shell = 1) => ~(useFFIEnv /\ ffi = "ready")
  /\ att.shell <= 1
  /\ att.native = "ok" => (att.shell = 0 /\ att.out = "native")
  /\ att.out = "native" => att.native = "ok"
  /\ att.out \in {"shell", "unmeasured", "failed", "threw"} =>
       (att.shell = 1 /\ att.native # "ok")
  /\ (att.shell = 1 /\ att.native # "none") => att.shellArgs = att.nativeArgs

\* C10: for each format, in conversion and in estimation, the native path is
\* attempted only if enabled and available; when it is unavailable, fails or
\* throws, the subprocess path is attempted exactly once with the same
\* arguments and decides the format; when it succeeds the subprocess is not
\* invoked; a native failure alone never makes the format fail.
C10_NativeThenFallback ==
  /\ AttemptConsistent(conv.att, mainFFI)
  /\ conv.pc = "shell" => (conv.att.shell = 0 /\ conv.att.out = "none")
  /\ \A id \in Ids :
       /\ AttemptConsistent(jobs[id].att, workerFFI)
       /\ jobs[id].pc = "shell" => (jobs[id].att.shell = 0 /\ jobs[id].att.out = "none")
       /\ jobs[id].pc = "awaitShell" => (jobs[id].att.shell = 1 /\ jobs[id].att.out = "none")

\* a conversion whose native attempt failed and an estimation whose native
\* attempt threw, both decided by the subprocess
C10_Witness ==
  /\ conv.att.native = "fail"
  /\ conv.att.out = "shell"
  /\ \E id \in Ids : jobs[id].att.native = "throw" /\ jobs[id].att.out = "shell"


\* whether a text holds a word
Contains(text, word) == \E i \in 1..Len(text) : text[i] = word

\* C11 as stated: when the native attempt and the subprocess attempt both
\* failed for a format, the error reported for the format is the native error
\* text followed by the subprocess error text (the subprocess text alone when
\* the native path was not attempted).
C11_ErrorsConcatenated ==
  \A k \in 1..Len(conv.errors) :
    conv.errors[k].text = conv.errors[k].nativeText \o conv.errors[k].shellText

\* the processImage run has validated its resize request
Validated == conv.pc \notin {"idle", "validate"}

\* the request asks for more than the displayed width or height
Upscales ==
  /\ conv.dims # << >>
  /\ \/ conv.rw # Null /\ conv.rw > conv.dims[1]
     \/ conv.rh # Null /\ conv.rh > conv.dims[2]

\* C12: a processImage run whose request exceeds the displayed width or
\* height ends at once with success=false and an error containing "upscale",
\* no output, no progress call and no conversion attempt on either path; the
\* only image access is the one geometry read of validation.
C12_UpscaleRejectedBeforeAnyAttempt ==
  (Validated /\ Upscales) =>
    /\ conv.pc = "done"
    /\ ~conv.result.success
    /\ Contains(conv.result.error, "upscale")
    /\ conv.result.outputPaths = << >>
    /\ conv.outputPaths = << >>
    /\ conv.progress = << >>
    /\ conv.trace = << >>
    /\ conv.att = NoAttempt
    /\ conv.geometryReads = 1

\* an upscale request for two formats was rejected
C12_Witness ==
  /\ conv.pc = "done"
  /\ conv.rw = 1200
  /\ conv.formats = <<"webp", "avif">>
  /\ Contains(conv.result.error, "upscale")

\* C13: validateResize answers valid exactly when no resize is requested
\* (decided without a geometry read) or the geometry resolved and every
\* requested axis is within it; too wide fails with an "upscale" width error
\* also when the height is too large as well, only too high fails with an
\* "upscale" height error, and an unresolved geometry under a resize request
\* fails with an error containing "dimensions".
C13_ValidateResize ==
  Validated =>
    LET v == conv.validation
        requested == conv.rw # Null \/ conv.rh # Null
        known == conv.dims # << >>
        tooWide == known /\ conv.rw # Null /\ conv.rw > conv.dims[1]
        tooHigh == known /\ conv.rh # Null /\ conv.rh > conv.dims[2]
    IN /\ v.valid <=> (~requested \/ (known /\ ~tooWide /\ ~tooHigh))
       /\ v.valid => v.error = NoText
       /\ ~requested => conv.geometryReads = 0
       /\ requested => conv.geometryReads = 1
       /\ tooWide => (Contains(v.error, "upscale") /\ Contains(v.error, "width"))
       /\ (tooHigh /\ ~tooWide) =>
            (Contains(v.error, "upscale") /\ Contains(v.error, "height"))
       /\ (requested /\ ~known) => Contains(v.error, "dimensions")

\* a request too wide and too high was answered with the width error
C13_Witness ==
  /\ Validated
  /\ conv.rw = 1200 /\ conv.rh = 500
  /\ conv.dims = SourceDims
  /\ Contains(conv.validation.error, "width")

\* C14 as stated: a conversion is not failed only because the geometry of
\* the source could not be resolved: a run that read no geometry still
\* attempts every requested format.
C14_NullDimensionsNotFatal ==
  (conv.pc = "done" /\ conv.geometryReads = 1 /\ conv.dims = << >>) =>
    /\ conv.validation.valid
    /\ Len(conv.trace) = 2 * Len(conv.formats)

\* the calls a complete run over the formats makes, in order
ExpectedCalls(formats) ==
  [k \in 1..(2 * Len(formats)) |->
     IF k % 2 = 1 THEN [call |-> "onProgress", format |-> formats[(k + 1) \div 2]]
                  ELSE [call |-> "convertToFormat", format |-> formats[k \div 2]]]

\* C15: after validation passed, processImage calls onProgress and then
\* convertToFormat once for every format, in list order, whatever the outcome
\* of the earlier formats: at every moment the calls made are the expected
\* calls up to the format in work, and all of them when the run is over.
C15_EveryFormatOnceInOrder ==
  (Validated /\ conv.validation.valid) =>
    LET started == IF conv.pc = "shell" THEN conv.i ELSE conv.i - 1
    IN /\ conv.trace = SubSeq(ExpectedCalls(conv.formats), 1, 2 * started)
       /\ conv.progress = SubSeq(conv.formats, 1, started)
       /\ conv.pc = "done" =>
            /\ conv.trace = ExpectedCalls(conv.formats)
            /\ conv.progress = conv.formats

\* the first of two formats failed and the second was still converted
C15_Witness ==
  /\ conv.pc = "done"
  /\ conv.formats = <<"webp", "avif">>
  /\ Len(conv.errors) = 1 /\ conv.errors[1].format = "webp"
  /\ conv.outputPaths = <<"avif">>
  /\ Len(conv.trace) = 4

\* the formats of a sequence, as a set
FormatsOf(list) == {list[k] : k \in 1..Len(list)}

\* C16: the overall result follows from the per-format outcomes: no format
\* succeeded (also for an empty list) gives success=false, a non-empty error
\* and no output path; all succeeded gives success=true, one path per format
\* and no error; some succeeded gives success=true, exactly the successful
\* paths and a non-empty error naming every failed format.
C16_OverallResult ==
  conv.pc = "done" =>
    LET r == conv.result
        succeeded == FormatsOf(conv.outputPaths)
        failed == FormatsOf(conv.formats) \ succeeded
    IN /\ succeeded = {} =>
            (~r.success /\ r.error # NoText /\ r.outputPaths = << >>)
       /\ (succeeded # {} /\ failed = {}) =>
            /\ r.success
            /\ r.outputPaths = conv.formats
            /\ r.error = NoText
       /\ (succeeded # {} /\ failed # {}) =>
            /\ r.success
            /\ r.outputPaths = conv.outputPaths
            /\ FormatsOf(r.outputPaths) = succeeded
            /\ Len(r.outputPaths) = Cardinality(succeeded)
            /\ r.error # NoText
            /\ \A f \in failed : Contains(r.error, ToUpperCase(f))

\* a partial success: one format converted, the other failed
C16_Witness ==
  /\ conv.pc = "done"
  /\ conv.result.success
  /\ conv.result.outputPaths = <<"webp">>
  /\ Contains(conv.result.error, "AVIF")


\* what the swap rule gives for raw sizes and an orientation code
Displayed(raw, code) == IF code \in 5..8 THEN <<raw[2], raw[1]>> ELSE raw

\* the orientation code of the image looked at; 0 when it carries none
CodeOf(img) == IF img.exif = << >> THEN 0 ELSE img.exif[1]

\* C17: shouldSwapDimensions is true exactly for the codes 5..8, and the
\* dimensions resolved for a readable image are (width, height) for the codes
\* 1..4, for 0 and for an absent orientation, and (height, width) for 5..8.
C17_OrientationSwap ==
  /\ \A c \in 0..9 : shouldSwapDimensions(c) <=> c \in 5..8
  /\ (geo.nativeCall = "returned" /\ geo.image.readable) =>
       geo.nativeResult = Displayed(geo.image.raw, CodeOf(geo.image))
  /\ geo.attempt = "dims" =>
       geo.result = Displayed(geo.image.raw, CodeOf(geo.image))
  /\ (geo.shellCall = "exited" /\ geo.image.readable) =>
       geo.shellResult = Displayed(geo.image.raw, CodeOf(geo.image))

\* a 600x400 image with orientation 6 resolved to 400x600 by the native path
C17_Witness ==
  /\ geo.image.raw = <<600, 400>>
  /\ geo.image.exif = <<6>>
  /\ geo.nativeCall = "returned"
  /\ geo.nativeResult = <<400, 600>>

\* C18: whenever the native resolver and the subprocess resolver both ran to
\* their end on an image they returned the same value: the same
\* (width, height) for a readable image, whatever its orientation, present or
\* absent, and null for an unreadable one.
C18_ResolversAgree ==
  /\ (geo.nativeCall = "returned" /\ geo.shellCall = "exited") =>
       geo.nativeResult = geo.shellResult
  /\ (geo.nativeCall = "returned" /\ ~geo.image.readable) => geo.nativeResult = << >>
  /\ (geo.shellCall # "none" /\ ~geo.image.readable) => geo.shellResult = << >>
  /\ (geo.nativeCall = "returned" /\ geo.image.readable) => geo.nativeResult # << >>
  /\ (geo.shellCall = "exited" /\ geo.image.readable) => geo.shellResult # << >>

\* both resolvers ran on a rotated image, and on one without orientation
C18_Witness ==
  /\ geo.image.readable
  /\ geo.image.raw = <<600, 400>>
  /\ geo.image.exif = <<8>>
  /\ geo.nativeCall = "returned"
  /\ geo.shellCall = "exited"
  /\ geo.shellResult = <<400, 600>>

Abs(x) == IF x < 0 THEN -x ELSE x

\* the entry's percent is a nearest integer of 100*(originalSize -
\* estimatedSize)/originalSize, it is at most 100 and the entry carries the
\* request's originalSize
NearestPercent ==
  /\ sizing.entry.originalSize = sizing.originalSize
  /\ sizing.entry.estimatedSize = sizing.estimatedSize
  /\ 2 * Abs(100 * (sizing.originalSize - sizing.estimatedSize)
             - sizing.entry.decreasePercent * sizing.originalSize) <= sizing.originalSize
  /\ sizing.entry.decreasePercent <= 100

\* C20 as stated: ... and the percent is negative exactly when estimatedSize
\* exceeds originalSize by at least half a percent.
C20_NegativeFromHalfPercent ==
  sizing.pc = "pushed" =>
    /\ NearestPercent
    /\ (sizing.entry.decreasePercent < 0) <=>
         (200 * (sizing.estimatedSize - sizing.originalSize) >= sizing.originalSize)

\* C20, amended: every entry carries the request's originalSize and a percent
\* that is a nearest integer of 100*(originalSize - estimatedSize)/originalSize
\* and at most 100; the percent is negative whenever estimatedSize exceeds
\* originalSize by more than half a percent, and is not negative whenever
\* estimatedSize exceeds originalSize by less than half a percent or not at
\* all.
C20_DecreasePercent ==
  sizing.pc = "pushed" =>
    /\ NearestPercent
    /\ 200 * (sizing.estimatedSize - sizing.originalSize) > sizing.originalSize
         => sizing.entry.decreasePercent < 0
    /\ 200 * (sizing.estimatedSize - sizing.originalSize) < sizing.originalSize
         => sizing.entry.decreasePercent >= 0

\* an increase of one and a half percent is reported as -1
C20_Witness ==
  /\ sizing.pc = "pushed"
  /\ sizing.originalSize = 200
  /\ sizing.estimatedSize = 203
  /\ sizing.entry.decreasePercent = -1

\* the format the handler of id is working on was measured by the step taken
MeasuredBy(id) ==
  \/ jobs'[id].att.native = "ok"
  \/ jobs'[id].att.exit = "zero"

\* the step finished a format of the request of id
FormatDecided(id) ==
  /\ jobs[id].pc \in {"format", "awaitShell"}
  /\ jobs'[id].pc = "format"
  /\ jobs'[id].i = jobs[id].i + 1

\* the step posted the response of id
ResponsePosted(id) == postedCount'[id] = postedCount[id] + 1

\* C21: the estimates of a request grow by exactly the format just decided
\* when the native path or, failing that, the subprocess measured it, and not
\* at all when neither did, so they are the measured formats in request order;
\* the response carries them unchanged, with success=true when there is at
\* least one and success=false with an error when there is none.
C21_Step(id) ==
  /\ FormatDecided(id) =>
       jobs'[id].estimates =
         (IF MeasuredBy(id) THEN Append(jobs[id].estimates, jobs[id].req.formats[jobs[id].i])
                            ELSE jobs[id].estimates)
  /\ ResponsePosted(id) =>
       /\ jobs[id].i = Len(jobs[id].req.formats) + 1
       /\ toMain' = Append(toMain, toMain'[Len(toMain')])
       /\ LET m == toMain'[Len(toMain')]
          IN /\ m.id = id
             /\ m.estimates = jobs[id].estimates
             /\ m.success <=> Len(jobs[id].estimates) >= 1
             /\ (m.error # "") <=> ~m.success
  /\ (~FormatDecided(id) /\ ~ResponsePosted(id) /\ jobs[id].pc # "none") =>
       jobs'[id].estimates = jobs[id].estimates

C21_MeasuredFormatsInOrder == [][\A id \in Ids : C21_Step(id)]_vars

\* a request for two formats answered with success and one estimate: the
\* other format could not be measured
C21_Witness ==
  \E k \in PromiseIndexes :
    /\ ResolvedByWorker(k)
    /\ Len(promises[k].req.formats) = 2
    /\ promises[k].value.success
    /\ Len(promises[k].value.estimates) = 1

\* the file a finished generateOutputPath call returned a path for
ReturnedFile == Resolve(gen.cwd, gen.outputPath)

\* the file named <stem>.<format> (k = 0) or <stem>-k.<format> in the folder
\* of the input
NamedFile(k) == Resolve(gen.folder, OutputName(gen.stem, k, gen.format))

C23_TempFileDeletionAttempted ==
  temp.pc = "done" =>
    /\ temp.tempPath \in temp.unlinked
    /\ temp.files \subseteq temp.unlinked

\* a subprocess estimation that returned after a non-zero exit code and left
\* the file the tool had created
C23_FileLeftBehind ==
  /\ temp.pc = "done"
  /\ temp.result = "failure"
  /\ temp.tempPath \in temp.files
  /\ temp.tempPath \notin temp.unlinked

\* the handler of the request id has started and has neither posted its
\* response nor ended in an exception
InExecution(id) == jobs[id].pc \in {"format", "shell", "awaitShell"}

\* C24: at most one estimation request is in execution inside the worker, and
\* a request received later is not answered before one received earlier (a
\* handler that ended in an exception apart), on the native path and on the
\* subprocess path alike.
C24_OneRequestAtATime ==
  /\ Cardinality({id \in Ids : InExecution(id)}) <= 1
  /\ \A i, j \in 1..Len(received) :
       (i < j /\ postedCount[received[j]] >= 1)
         => (postedCount[received[i]] >= 1 \/ jobs[received[i]].pc = "rejected")

\* a request answered while the request received before it still waits for
\* its subprocess
C24_AnsweredOutOfOrder ==
  /\ Len(received) = 2
  /\ jobs[received[1]].pc = "awaitShell"
  /\ postedCount[received[1]] = 0
  /\ postedCount[received[2]] = 1

\* what a cancelEstimation(id) step leaves alone: the request channel, the
\* worker with its jobs, the response channel, the worker handle, the
\* identifier counter and everything outside the dispatcher
CancelFrame ==
  /\ UNCHANGED <<toWorker, toMain, workerVars, estimateWorker, requestId, sentCount, discarded>>
  /\ UNCHANGED <<uiVars, ffiVars, convVars>>

\* C25: a cancelEstimation(id) step posts nothing to the worker and leaves the
\* worker, its jobs and both channels as they are; for a pending id it removes
\* the record of id and settles the future of id, and no other record or
\* future changes; for an id that is unknown, completed or already cancelled
\* it changes nothing at all.
C25_Step(id) ==
  cancelEstimation(id) =>
    /\ CancelFrame
    /\ IF id \in DOMAIN pendingRequests
         THEN /\ DOMAIN pendingRequests' = DOMAIN pendingRequests \ {id}
              /\ \A other \in DOMAIN pendingRequests' :
                   pendingRequests'[other] = pendingRequests[other]
              /\ \A k \in PromiseIndexes :
                   k # pendingRequests[id] => promises'[k] = promises[k]
              /\ promises'[pendingRequests[id]].state = "fulfilled"
         ELSE UNCHANGED vars

C25_CancelOnlyForgets == [][\A id \in Ids : C25_Step(id)]_vars

\* a request cancelled while the worker is busy with it and the worker
\* carrying on, next to another request whose record is still pending
C25_Witness ==
  \E j, k \in PromiseIndexes :
    /\ promises[k].value = FailureResult(CancelledError)
    /\ InExecution(promises[k].id)
    /\ promises[j].state = "pending"
    /\ promises[j].id \in DOMAIN pendingRequests

\* the order the steps are to be taken in
FixedOrder ==
  <<"read", "orient", "strip", "quality", "resize", "format",
    IF pipe.kind = "convert" THEN "write" ELSE "blob">>

PositionOf(name) == CHOOSE k \in 1..Len(FixedOrder) : FixedOrder[k] = name

\* the native calls of the kind name made so far
CallsOf(name) == {i \in 1..Len(pipe.calls) : pipe.calls[i].name = name}

\* a resize is requested
ResizeRequested == pipe.rw # Null \/ pipe.rh # Null

\* C26: the native calls of convertImage and estimateFileSize are made in the
\* order read, auto-orient, strip, quality, resize, format, write or blob, each
\* at most once, and a successful run made every one of them, the resize
\* apart; the tool's arguments are the input, -auto-orient, -strip, -quality
\* with its value, -resize <W>x<H>> only when a resize is requested, with an
\* empty W or H for the axis not given, and the output, in that order.
C26_FixedStepOrder ==
  /\ \A i, j \in 1..Len(pipe.calls) :
       i < j => PositionOf(pipe.calls[i].name) < PositionOf(pipe.calls[j].name)
  /\ pipe.exit = "success" =>
       \A k \in 1..Len(FixedOrder) : FixedOrder[k] # "resize" => CallsOf(FixedOrder[k]) # {}
  /\ pipe.pc = "done" =>
       /\ [i \in 1..Len(pipe.args) |-> pipe.args[i].text] =
            (IF ResizeRequested
               THEN <<"input", "-auto-orient", "-strip", "-quality", "number", "-resize",
                      "x>", "output">>
               ELSE <<"input", "-auto-orient", "-strip", "-quality", "number", "output">>)
       /\ pipe.args[5].w = pipe.quality
       /\ ResizeRequested => (pipe.args[7].w = pipe.rw /\ pipe.args[7].h = pipe.rh)

\* a successful estimation with a resize call for a width-only request, and
\* the tool's arguments for it
C26_Witness ==
  /\ pipe.pc = "done"
  /\ pipe.kind = "estimate"
  /\ pipe.exit = "success"
  /\ CallsOf("resize") # {}
  /\ pipe.rw # Null /\ pipe.rh = Null
  /\ pipe.args[7] = Arg("x>", pipe.rw, Null)

\* C27: in both native pipelines a failed auto-orient or strip does not end
\* the operation, and a failed read, resize, format assignment, write or blob
\* extraction is the last call made and ends the operation with a failure.
C27_FatalAndSoftSteps ==
  \A i \in 1..Len(pipe.calls) :
    pipe.calls[i].result = "fail" =>
      IF pipe.calls[i].name \in {"orient", "strip"}
        THEN i = Len(pipe.calls) => pipe.exit # "failure"
        ELSE pipe.calls[i].name \in {"read", "resize", "format", "write", "blob"}
               => (i = Len(pipe.calls) /\ pipe.exit = "failure")

\* an estimation that reported success although its resize call failed
C27_ResizeFailureIgnored ==
  /\ pipe.kind = "estimate"
  /\ pipe.exit = "success"
  /\ \E i \in CallsOf("resize") : pipe.calls[i].result = "fail"

\* every native call made so far returned a truthy result
AllCallsOk == \A i \in 1..Len(pipe.calls) : pipe.calls[i].result = "ok"

\* C28: MagickResizeImage is never called with a target wider or higher than
\* the image in the wand; when a resize is requested and the requested or
\* computed target exceeds that image on an axis, no resize call is made, the
\* size stays as it was, and the operation succeeds unless another call fails.
C28_NeverEnlarges ==
  /\ \A i \in CallsOf("resize") :
       /\ pipe.calls[i].w <= pipe.before[1]
       /\ pipe.calls[i].h <= pipe.before[2]
  /\ pipe.before # << >> =>
       LET target == TargetSize(pipe.before[1], pipe.before[2], pipe.rw, pipe.rh)
       IN (target[1] > pipe.before[1] \/ target[2] > pipe.before[2])
            <=> (pipe.skipped /\ CallsOf("resize") = {})
  /\ pipe.skipped =>
       /\ <<pipe.width, pipe.height>> = pipe.before
       /\ (pipe.exit # "" /\ AllCallsOk) => pipe.exit = "success"

\* a conversion asked for a wider and lower image: no resize call, success,
\* the size unchanged
C28_Witness ==
  /\ pipe.kind = "convert"
  /\ pipe.rw = 1200 /\ pipe.rh = 300
  /\ pipe.skipped
  /\ pipe.exit = "success"
  /\ <<pipe.width, pipe.height>> = <<600, 400>>

\* the size getImageDimensions reports for the image: what validateResize reads
DisplayedSize == NativeDimensions(pipe.image)

\* validateResize accepts the request
Accepted == ValidateResize(DisplayedSize, pipe.rw, pipe.rh).valid

\* the request names one axis only, with a value of at least 1
OneAxisRequest ==
  \/ pipe.rw >= 1 /\ pipe.rh = Null
  \/ pipe.rh >= 1 /\ pipe.rw = Null

C30_PathsAgree ==
  (pipe.pc = "done" /\ pipe.exit = "success" /\ AllCallsOk /\ Accepted)
    => <<pipe.width, pipe.height>> = pipe.toolSize

\* 600x400 asked to be 300x300: the native path writes 300x300, the tool
\* 300x200
C30_PathsDiffer ==
  /\ pipe.pc = "done"
  /\ pipe.exit = "success"
  /\ AllCallsOk
  /\ pipe.image.raw = <<600, 400>>
  /\ pipe.rw = 300 /\ pipe.rh = 300
  /\ <<pipe.width, pipe.height>> = <<300, 300>>
  /\ pipe.toolSize = <<300, 200>>


(***************************************************************************)
(* C31: over any sequence of getMagickFFI, resetMagickFFI, direct cleanup  *)
(* calls and exit / signal handler runs, every MagickFFI object has had at *)
(* most one MagickWandTerminus for each of its MagickWandGenesis calls,    *)
(* and none while it was not initialized: its teardowns never outnumber    *)
(* its setups, and it is initialized exactly while one setup has no        *)
(* teardown yet. The handlers registered before a reset act on the current *)
(* singleton, so several of them run at one exit.                          *)
(***************************************************************************)
C31_TeardownOncePerSetup ==
  \A i \in 1..Len(rt.inst) :
    LET x == rt.inst[i]
    IN /\ x.terminus <= x.genesis
       /\ x.initialized <=> (x.genesis = x.terminus + 1)

\* a thread exits with the handlers of two getMagickFFI initialisations
\* registered: the object of before the reset and the current singleton have
\* each been torn down once
C31_Witness ==
  \E t \in Threads :
    /\ rt.mod[t].exited
    /\ rt.mod[t].handlers >= 2
    /\ rt.mod[t].instance # Null
    /\ rt.inst[rt.mod[t].instance].terminus = 1
    /\ \E j \in 1..Len(rt.inst) :
         j # rt.mod[t].instance /\ rt.inst[j].genesis = 1 /\ rt.inst[j].terminus = 1


\* the setups and teardowns object i has had in process r
GenesisOf(r, i) == IF i <= Len(r.inst) THEN r.inst[i].genesis ELSE 0

TerminusOf(r, i) == IF i <= Len(r.inst) THEN r.inst[i].terminus ELSE 0

(***************************************************************************)
(* C32: counting every MagickFFI object of the process (the singleton of   *)
(* the main thread, the singleton of the estimation worker, and objects    *)
(* constructed directly), no step executes MagickWandGenesis while the     *)
(* runtime is set up, and no step executes MagickWandTerminus while        *)
(* another object is still initialized.                                    *)
(***************************************************************************)
C32_Step ==
  \A i \in 1..Len(rt'.inst) :
    /\ GenesisOf(rt', i) > GenesisOf(rt, i) => ~rt.up
    /\ TerminusOf(rt', i) > TerminusOf(rt, i) =>
         \A j \in 1..Len(rt.inst) : j # i => ~rt.inst[j].initialized

C32_RuntimeSetUpOnce == [][C32_Step]_vars

\* the worker's singleton is still initialized after the main thread's
\* singleton, set up while the worker's was, has torn the runtime down
C32_TornDownUnderWorker ==
  /\ rt.mod["worker"].instance # Null
  /\ rt.inst[rt.mod["worker"].instance].initialized
  /\ ~rt.up
  /\ \E j \in 1..Len(rt.inst) : rt.inst[j].genesis = 1 /\ rt.inst[j].terminus = 1
  /\ rt.last.thread = "main"
  /\ rt.last.call \in {"resetMagickFFI", "exit", "signal"}


\* the step is a call made on thread t, recorded in rt'.last
CallOn(t) == rt'.calls > rt.calls /\ rt'.last.thread = t

\* the calls that go through getMagickFFI
ProbingCalls == {"getMagickFFI", "isFFIAvailable"} \cup RequestKinds

\* a getMagickFFI call that returns gives the module's singleton, which is
\* initialized and is the object the module held before the call if it held
\* one; only resetMagickFFI makes the module drop the object it holds
SingletonStep(t) ==
  CallOn(t) =>
    /\ (rt'.last.call = "getMagickFFI" /\ rt'.last.threw = Null) =>
         /\ rt'.last.returned # Null
         /\ rt'.last.returned = rt'.mod[t].instance
         /\ rt'.inst[rt'.last.returned].initialized
         /\ rt.mod[t].instance # Null => rt'.last.returned = rt.mod[t].instance
    /\ (rt.mod[t].instance # Null /\ rt'.last.call # "resetMagickFFI") =>
         rt'.mod[t].instance = rt.mod[t].instance

\* a failed first initialisation leaves no singleton and an object that is
\* not initialized, and caches the error; while the error is cached a call
\* loads nothing and constructs nothing, getMagickFFI throws the cached
\* error, isFFIAvailable returns false and a request takes the subprocess
\* path; only resetMagickFFI clears the cached error
CachedErrorStep(t) ==
  CallOn(t) =>
    /\ (rt.mod[t].initError = Null /\ rt'.mod[t].initError # Null) =>
         /\ rt'.last.call \in ProbingCalls
         /\ rt'.mod[t].instance = Null
         /\ ~rt'.inst[Len(rt'.inst)].initialized
    /\ (rt.mod[t].initError # Null /\ rt'.last.call \in ProbingCalls) =>
         /\ rt'.loads = rt.loads
         /\ rt'.inst = rt.inst
         /\ rt'.mod = rt.mod
         /\ rt'.last.call = "getMagickFFI" => rt'.last.threw = rt.mod[t].initError
         /\ rt'.last.call = "isFFIAvailable" => ~rt'.last.available
         /\ rt'.last.call \in RequestKinds =>
              rt'.last.path = "shell" /\ ~rt'.last.nativeCalls
    /\ (rt.mod[t].initError # Null /\ rt'.mod[t].initError # rt.mod[t].initError) =>
         rt'.last.call = "resetMagickFFI" /\ rt'.mod[t].initError = Null

\* the second half of C33 alone
CachedErrorHolds == [][\A t \in Threads : CachedErrorStep(t)]_vars

(***************************************************************************)
(* C33: getMagickFFI returns one and the same initialized object on every  *)
(* call until resetMagickFFI; when the first initialisation fails the      *)
(* error is cached, every later getMagickFFI throws that error without     *)
(* loading the library again, isFFIAvailable returns false and every       *)
(* request uses the fallback, until resetMagickFFI clears the error.       *)
(***************************************************************************)
C33_SingletonAndCachedError ==
  [][\A t \in Threads : SingletonStep(t) /\ CachedErrorStep(t)]_vars

\* getMagickFFI has just returned the singleton although cleanup() was
\* called on it: the object is not initialized and the runtime is down
C33_ReturnedAfterCleanup ==
  /\ rt.last.call = "getMagickFFI"
  /\ rt.last.returned # Null
  /\ rt.last.returned = rt.mod[rt.last.thread].instance
  /\ ~rt.inst[rt.last.returned].initialized
  /\ rt.inst[rt.last.returned].terminus = 1
  /\ ~rt.up


\* the step is the entry of getImageDimensions, convertImage or
\* estimateFileSize: it either creates the wand or throws before the try
OperationEntered == op = NoOp /\ (op' # NoOp \/ Len(opLog') > Len(opLog))

(***************************************************************************)
(* C34: getImageDimensions, convertImage and estimateFileSize create a     *)
(* wand and make native calls only while isInitialized() is true; entered  *)
(* on an object that is not initialized (never initialized, or cleaned up) *)
(* they throw, create no wand and make no native call.                     *)
(***************************************************************************)
C34_Step ==
  (OperationEntered /\ ~initialized) =>
    /\ op' = NoOp
    /\ wands' = wands
    /\ nextWand' = nextWand
    /\ opLog'[Len(opLog')].exit = "throw"
    /\ opLog'[Len(opLog')].wand = 0

C34_OperationsRequireInit == [][C34_Step]_vars

\* an operation holds a wand and is making its native calls on an object
\* whose cleanup() has run MagickWandTerminus
C34_WandAfterCleanup ==
  /\ op.kind # "none"
  /\ op.wand \in wands
  /\ op.step >= 2
  /\ ~initialized
  /\ lib
  /\ terminus >= 1


\* the positions of the pieces of text that are not whitespace
InkPositions(text) == {k \in 1..Len(text) : text[k] \notin WhitespacePieces}

\* the error a failed run reports: stderr from its first to its last piece
\* that is not whitespace, or the exit-code sentence when it has none
ExpectedError(stderr, code) ==
  IF InkPositions(stderr) = {} THEN <<"ImageMagick exited with code ", ToString(code)>>
  ELSE SubSeq(stderr,
              CHOOSE k \in InkPositions(stderr) : \A m \in InkPositions(stderr) : k <= m,
              CHOOSE k \in InkPositions(stderr) : \A m \in InkPositions(stderr) : k >= m)

(***************************************************************************)
(* C35: in every subprocess operation a non-zero exit code gives a failure *)
(* (null for the dimension read) whatever the tool printed, the error of   *)
(* the failure is the trimmed stderr or, when that is empty, 'ImageMagick  *)
(* exited with code N', and an output path or an estimated size is         *)
(* reported only with exit code 0.                                         *)
(***************************************************************************)
C35_NonZeroExitIsFailure ==
  sub.pc = "done" =>
    /\ (sub.code # << >> /\ sub.code # <<0>>) =>
         /\ ~sub.result.success
         /\ ~sub.result.threw
         /\ sub.result.dims = << >>
         /\ sub.result.outputPath = << >>
         /\ sub.result.estimatedSize = << >>
         /\ sub.kind # "dimensions" =>
              sub.result.error = ExpectedError(sub.stderr, sub.code[1])
    /\ (sub.result.outputPath # << >> \/ sub.result.estimatedSize # << >>) =>
         sub.code = <<0>>

\* magick identify printed a width and a height and exited with code 2: the
\* dimension read returned null
C35_Witness ==
  /\ sub.pc = "done"
  /\ sub.kind = "dimensions"
  /\ sub.code = <<2>>
  /\ sub.stdout = <<600, 400>>
  /\ sub.result.dims = << >>


(***************************************************************************)
(* C36: with MAGICK_USE_FFI equal to 'false' a conversion, an estimation   *)
(* or a dimension read makes no getMagickFFI / isFFIAvailable call, so it  *)
(* loads nothing, constructs nothing and sets nothing up, and it takes the *)
(* subprocess path; with any other value, or none, the request asks        *)
(* isFFIAvailable first and calls the native method when that is true.     *)
(***************************************************************************)
C36_Step(t) ==
  (CallOn(t) /\ rt'.last.call \in RequestKinds) =>
    IF rt.env = "false"
      THEN /\ ~rt'.last.probed
           /\ ~rt'.last.nativeCalls
           /\ rt'.last.path = "shell"
           /\ rt'.inst = rt.inst
           /\ rt'.mod = rt.mod
           /\ rt'.loads = rt.loads
           /\ rt'.up = rt.up
      ELSE /\ rt'.last.probed
           /\ rt'.last.available <=> rt'.last.nativeCalls
           /\ rt'.last.path = "native" => rt'.last.nativeCalls

C36_FlagDisablesNativeLayer == [][\A t \in Threads : C36_Step(t)]_vars

\* with the flag 'false' a conversion has used the subprocess and the
\* process has never loaded the library
C36_Witness ==
  /\ rt.env = "false"
  /\ rt.last.call = "convert"
  /\ rt.last.path = "shell"
  /\ ~rt.last.probed
  /\ rt.loads = 0
  /\ rt.calls >= 2


(***************************************************************************)
(* C37: every MagickResizeImage call of the native pipeline is given a     *)
(* target width and a target height of at least 1; in particular the axis  *)
(* computed from a one-axis request is a positive integer.                 *)
(***************************************************************************)
C37_ResizeTargetsPositive ==
  \A k \in 1..Len(pipe.calls) :
    pipe.calls[k].name = "resize" => (pipe.calls[k].w >= 1 /\ pipe.calls[k].h >= 1)

\* a width alone was requested on an image much wider than high: the height
\* computed for MagickResizeImage rounded to 0 and the call was made
C37_ZeroTargetPassed ==
  /\ pipe.rw # Null
  /\ pipe.rh = Null
  /\ pipe.rw <= pipe.image.raw[1]
  /\ \E k \in 1..Len(pipe.calls) :
       /\ pipe.calls[k].name = "resize"
       /\ pipe.calls[k].w = pipe.rw
       /\ pipe.calls[k].h = 0


\* the handleConvert runs that are inside processImage
Converting == {k \in 1..Len(drv.runs) : drv.runs[k].pc = "converting"}

(***************************************************************************)
(* C38: at most one processImage run is in progress at any time, also when *)
(* Enter is pressed again while a first handleConvert is still awaiting    *)
(* its resize validation; and once every handleConvert run has returned,   *)
(* the processing flag is false.                                           *)
(***************************************************************************)
C38_OneConversionAtATime ==
  /\ Cardinality(Converting) <= 1
  /\ (\A k \in 1..Len(drv.runs) : drv.runs[k].pc = "returned") => ~processing

\* Enter was pressed twice with a resize entered, both validations resolved,
\* and two processImage runs are in progress
C38_TwoConversions ==
  /\ drv.keys = 2
  /\ Len(drv.runs) = 2
  /\ drv.runs[1].resize /\ drv.runs[2].resize
  /\ Converting = {1, 2}
  /\ processing

=============================================================================
